---- MODULE Spec2Model ----
(***************************************************************************)
(* Session lifecycle and overdue monitor of the library attendance         *)
(* console (src/App.tsx): one client (the App component) and the hosted    *)
(* store it talks to.  Times are milliseconds as Date.getTime() gives      *)
(* them; toISOString()/new Date(...) carry a Date with millisecond         *)
(* precision and so return the same integer.                               *)
(***************************************************************************)
EXTENDS Integers, Sequences, FiniteSets, TLC

\* ------------------------------------------------------------- constants

MsPerMinute == 60000
MinutesPerHour == 60
MsPerHour == MinutesPerHour * MsPerMinute
HistoryLimit == 100
\* SQL NULL / an absent optional field of Session (checkOut, duration).
Null == -1

\* ---------------------------------------------------------------- inputs

Patrons == {"ST-001", "ST-002"}
NotesInputs == {"", "Left early"}
NoNotes == "undefined"
ManualNotes == "Manual Checkout"
AutoNotes == "Auto-Checkout: System Time Limit Reached"

\* The clock moves by half a minute, a minute or an hour.
HalfMinute == MsPerMinute \div 2
ClockSteps == {HalfMinute, MsPerMinute, MsPerHour}

\* ------------------------------------------------------- policy settings

DEFAULT_SETTINGS ==
  [autoCheckoutEnabled |-> FALSE, autoCheckoutHours |-> 12,
   notifEnabled |-> TRUE, thresholdMinutes |-> 180]

\* Overdue alerts after one minute, no auto-checkout.
AlertSettings ==
  [autoCheckoutEnabled |-> FALSE, autoCheckoutHours |-> 12,
   notifEnabled |-> TRUE, thresholdMinutes |-> 1]

\* The auto-checkout switch of the Settings page turned on; no page edits the
\* hours, so they are those of DEFAULT_SETTINGS and of the settings table.
AutoSettings ==
  [autoCheckoutEnabled |-> TRUE, autoCheckoutHours |-> 12,
   notifEnabled |-> TRUE, thresholdMinutes |-> 180]

\* A settings row of the store with auto_checkout_enabled and
\* auto_checkout_hours = 1, as fetchData maps it.
HourSettings ==
  [autoCheckoutEnabled |-> TRUE, autoCheckoutHours |-> 1,
   notifEnabled |-> TRUE, thresholdMinutes |-> 180]

\* The threshold field of the Settings page takes any integer:
\* parseInt(e.target.value) || 0.
EarlySettings ==
  [autoCheckoutEnabled |-> FALSE, autoCheckoutHours |-> 12,
   notifEnabled |-> TRUE, thresholdMinutes |-> -1]

\* The values the Settings page saves.
SettingsChoices == {DEFAULT_SETTINGS, AlertSettings}

\* ----------------------------------------------------------------- state

VARIABLES
  clock,              \* monotonic time (ms) since the component mounted
  skew,               \* wall clock minus monotonic clock (ms)
  remote,             \* the sessions table: a sequence of rows, in insert order
  remoteSettings,     \* the settings row 'global_config'
  pendingNotifs,      \* postgres_changes events committed but not yet delivered
  fetches,            \* fetchData calls in flight
  demoMode,
  patrons,            \* ids of the patron list held by the client
  activeSessions,
  sessionHistory,
  todaySessions,
  activeSessionsRef,  \* activeSessionsRef.current, and the activeSessions the
                      \* closures of the last render hold
  syncStatus,
  syncError,
  appSettings,
  authLoading,        \* the "Initializing" screen replaces the whole UI
  inits,              \* runs of init() awaiting verifyDatabaseConnection
  timerElapsed,       \* ms since the monitor's interval was created or last fired, capped
  ticks,              \* monitor executions in progress
  dispatched          \* session id -> number of sendOverdueAlert calls for it

vars == <<clock, skew, remote, remoteSettings, pendingNotifs, fetches, demoMode,
          patrons, activeSessions, sessionHistory, todaySessions,
          activeSessionsRef, syncStatus, syncError, appSettings, authLoading,
          inits, timerElapsed, ticks, dispatched>>

remoteVars == <<remote, remoteSettings, pendingNotifs>>
viewVars == <<activeSessions, sessionHistory, todaySessions>>
statusVars == <<syncStatus, syncError>>
clockVars == <<clock, skew>>
initVars == <<authLoading, inits>>
monitorVars == <<timerElapsed, ticks, dispatched>>

\* ------------------------------------------------------------- helpers

\* No monitor execution is in the middle of a synchronous run: JavaScript runs
\* a callback to its next await before anything else.
NoSyncRun == \A t \in ticks : ~t.sync

MaxOf(a, b) == IF a >= b THEN a ELSE b
MinOf(a, b) == IF a <= b THEN a ELSE b

\* new Date().getTime()
DateNow == clock + skew

\* Math.round(ms / 60000): the nearest integer, a half rounds up.
MathRound(ms) == (2 * ms + MsPerMinute) \div (2 * MsPerMinute)

\* arr.some(s => s.studentId === studentId)
HasPatron(arr, studentId) == \E i \in DOMAIN arr : arr[i].studentId = studentId

\* arr.find(s => s.id === sessionId): the index of the first match, 0 if none.
FindById(arr, sessionId) ==
  IF \E i \in DOMAIN arr : arr[i].id = sessionId
  THEN CHOOSE i \in DOMAIN arr :
         /\ arr[i].id = sessionId
         /\ \A j \in DOMAIN arr : arr[j].id = sessionId => i <= j
  ELSE 0

RemoteId(n) == <<"uuid", n>>
LocalId(t) == <<"local", t>>

\* ------------------------------------------------- rows and projections

NewRow(n, studentId, now) ==
  [id |-> RemoteId(n), patron_id |-> studentId, check_in |-> now,
   check_out |-> Null, duration |-> Null, notes |-> NoNotes,
   alert_triggered |-> FALSE]

IsOpenRow(r) == r.check_out = Null
IsClosedRow(r) == r.check_out # Null

\* startOfDay: setHours(0, 0, 0, 0) of the current date.
StartOfDay(now) == now - (now % (24 * MsPerHour))

\* The mapping fetchData applies to a row of the active query.
ActiveOfRow(r) ==
  [id |-> r.id, studentId |-> r.patron_id, checkIn |-> r.check_in,
   checkOut |-> Null, duration |-> Null, notes |-> NoNotes,
   alertTriggered |-> r.alert_triggered]

\* The mapping fetchData applies to a row of the history and today queries
\* (alertTriggered is not copied: it is undefined, which reads as false).
ClosedOfRow(r) ==
  [id |-> r.id, studentId |-> r.patron_id, checkIn |-> r.check_in,
   checkOut |-> r.check_out, duration |-> r.duration, notes |-> r.notes,
   alertTriggered |-> FALSE]

\* data.map(...) of the active query and of the history and today queries.
ActiveOfRows(rows) == [i \in 1..Len(rows) |-> ActiveOfRow(rows[i])]
ClosedOfRows(rows) == [i \in 1..Len(rows) |-> ClosedOfRow(rows[i])]

\* order('check_out', { ascending: false }): insertion into a descending
\* sequence; rows with equal check_out keep their table order.
RECURSIVE InsertDesc(_, _)
InsertDesc(r, sorted) ==
  IF sorted = <<>> THEN <<r>>
  ELSE IF Head(sorted).check_out >= r.check_out
       THEN <<Head(sorted)>> \o InsertDesc(r, Tail(sorted))
       ELSE <<r>> \o sorted

RECURSIVE OrderByCheckOutDesc(_)
OrderByCheckOutDesc(rows) ==
  IF rows = <<>> THEN <<>>
  ELSE InsertDesc(Head(rows), OrderByCheckOutDesc(Tail(rows)))

Limit(s, n) == IF Len(s) <= n THEN s ELSE SubSeq(s, 1, n)

ActiveQuery(rows) == SelectSeq(rows, IsOpenRow)
HistoryQuery(rows) ==
  Limit(OrderByCheckOutDesc(SelectSeq(rows, IsClosedRow)), HistoryLimit)
TodayQuery(rows, now) ==
  SelectSeq(rows, LAMBDA r : r.check_in >= StartOfDay(now))

\* ------------------------------------------------------------------ Init

\* The state after the first render and its effects: every useState at its
\* initial value, init() started and waiting for the health probe; the store
\* holds no session and no settings row.
Init ==
  /\ clock = 0
  /\ skew = 0
  /\ remote = <<>>
  /\ remoteSettings = <<>>
  /\ pendingNotifs = 0
  /\ fetches = {}
  /\ demoMode = FALSE
  /\ patrons = {}
  /\ activeSessions = <<>>
  /\ sessionHistory = <<>>
  /\ todaySessions = <<>>
  /\ activeSessionsRef = <<>>
  /\ syncStatus = "online"
  /\ syncError = "null"
  /\ appSettings = DEFAULT_SETTINGS
  /\ authLoading = TRUE
  /\ inits = <<[demo |-> FALSE]>>
  /\ timerElapsed = 0
  /\ ticks = {}
  /\ dispatched = <<>>

\* ------------------------------------------------------- time and render

\* Time passes by d ms.  A pending render is committed first: React renders
\* within the instant of the state change.
Advance(d) ==
  /\ NoSyncRun
  /\ activeSessionsRef = activeSessions
  /\ clock' = clock + d
  /\ timerElapsed' = MinOf(timerElapsed + d, MsPerMinute)
  /\ UNCHANGED <<skew, remoteVars, fetches, demoMode, patrons, viewVars,
                 activeSessionsRef, statusVars, appSettings, initVars, ticks,
                 dispatched>>

\* The wall clock of the device is set to monotonic time plus d.
ClockAdjust(d) ==
  /\ NoSyncRun
  /\ skew # d
  /\ skew' = d
  /\ UNCHANGED <<clock, remoteVars, fetches, demoMode, patrons, viewVars,
                 activeSessionsRef, statusVars, appSettings, initVars,
                 monitorVars>>

\* The render after setActiveSessions: the effect stores the new array in the
\* ref, and handlers are re-created over it.
Render ==
  /\ NoSyncRun
  /\ activeSessionsRef # activeSessions
  /\ activeSessionsRef' = activeSessions
  /\ UNCHANGED <<clockVars, remoteVars, fetches, demoMode, patrons, viewVars,
                 statusVars, appSettings, initVars, monitorVars>>

\* The main routes are rendered (the operator is authenticated when the
\* client is connected).
UIVisible == ~authLoading

\* ------------------------------------------------------------- fetchData

\* The answers of the five queries of fetchData.  The active query is answered
\* when the call is made; the others are answered with it (read) or later.
NewFetch(read, isInit) ==
  [act |-> ActiveOfRows(ActiveQuery(remote)),
   read |-> read,
   history |-> IF read THEN ClosedOfRows(HistoryQuery(remote)) ELSE <<>>,
   today |-> IF read THEN ClosedOfRows(TodayQuery(remote, DateNow))
             ELSE <<>>,
   settings |-> IF read THEN remoteSettings ELSE <<>>,
   startOfDay |-> StartOfDay(DateNow),
   init |-> isInit]

\* fetchData(silent) of a render whose demoMode is demo, up to its await.
\* It sets patrons', syncStatus' and fetches'.
fetchData(silent, demo, isInit) ==
  IF demo
  THEN /\ patrons' = IF patrons = {} THEN Patrons ELSE patrons
       /\ syncStatus' = "offline"
       /\ fetches' = fetches
  ELSE /\ patrons' = patrons
       /\ syncStatus' = IF silent THEN syncStatus ELSE "syncing"
       /\ \E read \in BOOLEAN : fetches' = fetches \cup {NewFetch(read, isInit)}

\* onRefresh={() => fetchData()} of Dashboard, StudentManagement, Settings.
onRefresh ==
  /\ NoSyncRun
  /\ UIVisible
  /\ fetchData(FALSE, demoMode, FALSE)
  /\ timerElapsed' = IF patrons' # patrons THEN 0 ELSE timerElapsed
  /\ UNCHANGED <<clockVars, remoteVars, demoMode, viewVars, activeSessionsRef,
                 syncError, appSettings, initVars, ticks, dispatched>>

\* A postgres_changes event reaches the subscribed client: fetchData(true).
RealtimeEvent ==
  /\ NoSyncRun
  /\ ~demoMode
  /\ pendingNotifs > 0
  /\ pendingNotifs' = pendingNotifs - 1
  /\ fetchData(TRUE, FALSE, FALSE)
  /\ UNCHANGED <<clockVars, remote, remoteSettings, demoMode, viewVars,
                 activeSessionsRef, syncError, appSettings, initVars,
                 monitorVars>>

\* The history, today and settings queries of a call are answered.
FetchRead(f) ==
  /\ NoSyncRun
  /\ ~f.read
  /\ fetches' = (fetches \ {f}) \cup
       {[f EXCEPT !.read = TRUE,
                  !.history = ClosedOfRows(HistoryQuery(remote)),
                  !.today = ClosedOfRows(SelectSeq(remote,
                               LAMBDA r : r.check_in >= f.startOfDay)),
                  !.settings = remoteSettings]}
  /\ UNCHANGED <<clockVars, remoteVars, demoMode, patrons, viewVars,
                 activeSessionsRef, statusVars, appSettings, initVars,
                 monitorVars>>

\* The resync that keeps the sessions the client created itself.
FetchApplyMerging(f) ==
  /\ NoSyncRun
  /\ f.read
  /\ fetches' = fetches \ {f}
  /\ patrons' = Patrons
  /\ activeSessions' =
       f.act \o SelectSeq(activeSessions, LAMBDA x : x.id[1] = "local")
  /\ sessionHistory' = f.history
  /\ todaySessions' = f.today
  /\ \E settingsOk \in BOOLEAN :
       \* settingsRes.data is null when the row is absent and when the query
       \* fails; settingsRes.error is not read
       appSettings' = IF settingsOk /\ f.settings # <<>> THEN f.settings[1]
                      ELSE appSettings
  /\ syncStatus' = "online"
  /\ authLoading' = IF f.init THEN FALSE ELSE authLoading
  /\ timerElapsed' = 0
  /\ UNCHANGED <<clockVars, remoteVars, demoMode, activeSessionsRef, syncError,
                 inits, ticks, dispatched>>

\* Promise.all resolves without error: the five setters, then 'online'.
FetchApply(f) ==
  /\ NoSyncRun
  /\ f.read
  /\ fetches' = fetches \ {f}
  /\ patrons' = Patrons
  /\ activeSessions' = f.act
  /\ sessionHistory' = f.history
  /\ todaySessions' = f.today
  /\ \E settingsOk \in BOOLEAN :
       \* settingsRes.data is null when the row is absent and when the query
       \* fails; settingsRes.error is not read
       appSettings' = IF settingsOk /\ f.settings # <<>> THEN f.settings[1]
                      ELSE appSettings
  /\ syncStatus' = "online"
  /\ authLoading' = IF f.init THEN FALSE ELSE authLoading
  /\ timerElapsed' = 0
  /\ UNCHANGED <<clockVars, remoteVars, demoMode, activeSessionsRef, syncError,
                 inits, ticks, dispatched>>

\* One of the first four queries answers with an error.
FetchFail(f) ==
  /\ NoSyncRun
  /\ fetches' = fetches \ {f}
  /\ syncStatus' = "error"
  /\ syncError' = "message"
  /\ authLoading' = IF f.init THEN FALSE ELSE authLoading
  /\ UNCHANGED <<clockVars, remoteVars, demoMode, patrons, viewVars,
                 activeSessionsRef, appSettings, inits, monitorVars>>

\* ------------------------------------------------------- init and modes

RemoveAt(s, i) == SubSeq(s, 1, i - 1) \o SubSeq(s, i + 1, Len(s))

\* The effect on [fetchData] runs init() again when demoMode has changed.
InitsAfter(rest, changed, demo) ==
  IF changed THEN Append(rest, [demo |-> demo]) ELSE rest

\* verifyDatabaseConnection answers the i-th running init().
init(i) ==
  /\ NoSyncRun
  /\ \E ok \in BOOLEAN :
       IF ok
       THEN /\ demoMode' = FALSE
            /\ fetchData(FALSE, inits[i].demo, TRUE)
            /\ authLoading' = IF demoMode THEN TRUE
                              ELSE IF inits[i].demo THEN FALSE ELSE authLoading
       ELSE /\ demoMode' = TRUE
            /\ authLoading' = ~demoMode
            /\ UNCHANGED <<patrons, syncStatus, fetches>>
  /\ inits' = InitsAfter(RemoveAt(inits, i), demoMode' # demoMode, demoMode')
  /\ pendingNotifs' = IF demoMode' THEN 0 ELSE pendingNotifs
  /\ timerElapsed' = IF demoMode' # demoMode \/ patrons' # patrons
                     THEN 0 ELSE timerElapsed
  /\ UNCHANGED <<clockVars, remote, remoteSettings, viewVars,
                 activeSessionsRef, syncError, appSettings, ticks, dispatched>>

\* Sign-out that also drops the monitor run in progress.
handleSignOutCancelling ==
  /\ NoSyncRun
  /\ UIVisible
  /\ ~demoMode
  /\ demoMode' = TRUE
  /\ authLoading' = TRUE
  /\ inits' = InitsAfter(inits, TRUE, TRUE)
  /\ pendingNotifs' = 0
  /\ timerElapsed' = 0
  /\ UNCHANGED <<clockVars, remote, remoteSettings, fetches, patrons, viewVars,
                 activeSessionsRef, statusVars, appSettings, dispatched>>
  /\ ticks' = {}

\* Sign-out (and onClose of the login screen): setDemoMode(true).
handleSignOut ==
  /\ NoSyncRun
  /\ UIVisible
  /\ ~demoMode
  /\ demoMode' = TRUE
  /\ authLoading' = TRUE
  /\ inits' = InitsAfter(inits, TRUE, TRUE)
  /\ pendingNotifs' = 0
  /\ timerElapsed' = 0
  /\ UNCHANGED <<clockVars, remote, remoteSettings, fetches, patrons, viewVars,
                 activeSessionsRef, statusVars, appSettings, ticks, dispatched>>

\* onLoginClick={() => setDemoMode(false)}
onLoginClick ==
  /\ NoSyncRun
  /\ UIVisible
  /\ demoMode
  /\ demoMode' = FALSE
  /\ authLoading' = TRUE
  /\ inits' = InitsAfter(inits, TRUE, FALSE)
  /\ timerElapsed' = 0
  /\ UNCHANGED <<clockVars, remoteVars, fetches, patrons, viewVars,
                 activeSessionsRef, statusVars, appSettings, ticks, dispatched>>

\* ----------------------------------------------------------- lifecycle

\* A committed change of a row is announced to the client while it is
\* subscribed to the channel.
Notified(changed) ==
  IF changed /\ ~demoMode THEN pendingNotifs + 1 ELSE pendingNotifs

\* setSyncStatus('error'); setSyncError(err.message)
SetError ==
  /\ syncStatus' = "error"
  /\ syncError' = "message"

\* handleCheckIn with the new session put into the active view at once.
handleCheckInOptimistic(studentId) ==
  /\ NoSyncRun
  /\ UIVisible
  /\ studentId \in patrons
  /\ IF HasPatron(activeSessionsRef, studentId)
     THEN UNCHANGED <<remoteVars, viewVars, statusVars>>
     ELSE IF ~demoMode
     THEN /\ \E ok \in BOOLEAN :
               IF ok
               THEN /\ remote' = Append(remote,
                                   NewRow(Len(remote) + 1, studentId, DateNow))
                    /\ pendingNotifs' = Notified(TRUE)
                    /\ UNCHANGED statusVars
               ELSE /\ SetError
                    /\ UNCHANGED <<remote, pendingNotifs>>
          /\ activeSessions' =
               Append(activeSessions,
                      ActiveOfRow(NewRow(Len(remote) + 1, studentId, DateNow)))
          /\ UNCHANGED <<remoteSettings, sessionHistory, todaySessions>>
     ELSE LET newSession ==
                [id |-> LocalId(DateNow), studentId |-> studentId,
                 checkIn |-> DateNow, checkOut |-> Null, duration |-> Null,
                 notes |-> NoNotes, alertTriggered |-> FALSE]
          IN /\ activeSessions' = Append(activeSessions, newSession)
             /\ todaySessions' = Append(todaySessions, newSession)
             /\ UNCHANGED <<sessionHistory, remoteVars, statusVars>>
  /\ UNCHANGED <<clockVars, fetches, demoMode, patrons, activeSessionsRef,
                 appSettings, initVars, monitorVars>>

\* handleCheckIn(studentId), called by the scanner, the manual form or the
\* registry list of CheckIn for a patron of the client's list.
handleCheckIn(studentId) ==
  /\ NoSyncRun
  /\ UIVisible
  /\ studentId \in patrons
  /\ IF HasPatron(activeSessionsRef, studentId)
     THEN UNCHANGED <<remoteVars, viewVars, statusVars>>
     ELSE IF ~demoMode
     THEN /\ \E ok \in BOOLEAN :
               IF ok
               THEN /\ remote' = Append(remote,
                                   NewRow(Len(remote) + 1, studentId, DateNow))
                    /\ pendingNotifs' = Notified(TRUE)
                    /\ UNCHANGED statusVars
               ELSE /\ SetError
                    /\ UNCHANGED <<remote, pendingNotifs>>
          /\ UNCHANGED <<remoteSettings, viewVars>>
     ELSE LET newSession ==
                [id |-> LocalId(DateNow), studentId |-> studentId,
                 checkIn |-> DateNow, checkOut |-> Null, duration |-> Null,
                 notes |-> NoNotes, alertTriggered |-> FALSE]
          IN /\ activeSessions' = Append(activeSessions, newSession)
             /\ todaySessions' = Append(todaySessions, newSession)
             /\ UNCHANGED <<sessionHistory, remoteVars, statusVars>>
  /\ UNCHANGED <<clockVars, fetches, demoMode, patrons, activeSessionsRef,
                 appSettings, initVars, monitorVars>>

\* The notes as the caller gave them.
NotesAsGiven(notes) == notes

\* notes || "Manual Checkout"
NotesOrDefault(notes) ==
  IF notes = NoNotes \/ notes = "" THEN ManualNotes ELSE notes

\* The duration without the floor of one minute.
RoundedDuration(checkOutTime, checkIn) == MathRound(checkOutTime - checkIn)

\* Math.max(1, Math.round((checkOutTime - checkIn) / 60000))
RecordedDuration(checkOutTime, checkIn) ==
  MaxOf(1, MathRound(checkOutTime - checkIn))

\* update({check_out, duration, notes}).eq('id', sessionId)
UpdateClose(rows, sessionId, checkOutTime, duration, notes) ==
  [i \in 1..Len(rows) |->
     IF rows[i].id = sessionId
     THEN [rows[i] EXCEPT !.check_out = checkOutTime, !.duration = duration,
                          !.notes = notes]
     ELSE rows[i]]

HasRow(rows, sessionId) == \E i \in DOMAIN rows : rows[i].id = sessionId

\* handleCheckOut(sessionId, notes) of a render whose demoMode is demo.  It
\* sets remote', pendingNotifs', the three views and the sync status.
CheckOutBody(sessionId, notes, demo) ==
  LET k == FindById(activeSessionsRef, sessionId)
      sessionToClose == activeSessionsRef[k]
      checkOutTime == DateNow
      duration == RecordedDuration(checkOutTime, sessionToClose.checkIn)
      closedSession ==
        [sessionToClose EXCEPT !.checkOut = checkOutTime,
                               !.duration = duration,
                               !.notes = NotesOrDefault(notes)]
  IN IF k = 0
     THEN UNCHANGED <<remote, pendingNotifs, viewVars, statusVars>>
     ELSE IF ~demo
     THEN /\ \E ok \in BOOLEAN :
               IF ok
               THEN /\ remote' = UpdateClose(remote, sessionId, checkOutTime,
                                             duration, NotesOrDefault(notes))
                    /\ pendingNotifs' = Notified(HasRow(remote, sessionId))
                    /\ UNCHANGED statusVars
               ELSE /\ SetError
                    /\ UNCHANGED <<remote, pendingNotifs>>
          /\ UNCHANGED viewVars
     ELSE /\ activeSessions' =
               SelectSeq(activeSessions, LAMBDA s : s.id # sessionId)
          /\ sessionHistory' = <<closedSession>> \o sessionHistory
          /\ todaySessions' =
               [i \in 1..Len(todaySessions) |->
                  IF todaySessions[i].id = sessionId THEN closedSession
                  ELSE todaySessions[i]]
          /\ UNCHANGED <<remote, pendingNotifs, statusVars>>

\* The ids a caller can hold: of a session of some view or row, or of none.
SessionIds ==
  {activeSessions[i].id : i \in DOMAIN activeSessions} \cup
  {activeSessionsRef[i].id : i \in DOMAIN activeSessionsRef} \cup
  {sessionHistory[i].id : i \in DOMAIN sessionHistory} \cup
  {remote[i].id : i \in DOMAIN remote} \cup {RemoteId(0)}

\* handleCheckOut(sessionId, notes), called by the scanner, the check-out
\* dialog of CheckIn or handleQuickOut of ActiveSessions.
handleCheckOut(sessionId, notes) ==
  /\ NoSyncRun
  /\ UIVisible
  /\ CheckOutBody(sessionId, notes, demoMode)
  /\ UNCHANGED <<clockVars, remoteSettings, fetches, demoMode, patrons,
                 activeSessionsRef, appSettings, initVars, monitorVars>>

\* saveGlobalSettings(newSettings), called by the Settings page.
saveGlobalSettings(newSettings) ==
  /\ NoSyncRun
  /\ UIVisible
  /\ IF demoMode
     THEN /\ appSettings' = newSettings
          /\ timerElapsed' = 0
          /\ UNCHANGED <<remoteSettings, pendingNotifs, statusVars>>
     ELSE /\ \E ok \in BOOLEAN :
               IF ok
               THEN /\ remoteSettings' = <<newSettings>>
                    /\ pendingNotifs' = Notified(TRUE)
                    /\ UNCHANGED statusVars
               ELSE /\ SetError
                    /\ UNCHANGED <<remoteSettings, pendingNotifs>>
          /\ UNCHANGED <<appSettings, timerElapsed>>
  /\ UNCHANGED <<clockVars, remote, fetches, demoMode, patrons, viewVars,
                 activeSessionsRef, initVars, ticks, dispatched>>

\* -------------------------------------------------------------- monitor

\* now.getTime() - session.checkIn.getTime(); durationMins is this over 60000.
ElapsedMs(t, s) == t.now - s.checkIn

\* The limit without the switch.
AutoDueUnswitched(t, s) ==
  ElapsedMs(t, s) >= t.settings.autoCheckoutHours * MinutesPerHour * MsPerMinute

\* The limit and the switch of the settings of the latest render.
AutoDueLive(t, s) ==
  /\ appSettings.autoCheckoutEnabled
  /\ ElapsedMs(t, s) >= appSettings.autoCheckoutHours * MinutesPerHour * MsPerMinute

\* appSettings.autoCheckoutEnabled && durationMins >= autoCheckoutHours * 60
AutoDue(t, s) ==
  /\ t.settings.autoCheckoutEnabled
  /\ ElapsedMs(t, s) >= t.settings.autoCheckoutHours * MinutesPerHour * MsPerMinute

\* notifications.enabled && !session.alertTriggered &&
\* durationMins >= thresholdMinutes, and the patron is found.
AlertDue(t, s) ==
  /\ t.settings.notifEnabled
  /\ ~s.alertTriggered
  /\ ElapsedMs(t, s) >= t.settings.thresholdMinutes * MsPerMinute
  /\ s.studentId \in t.patrons

\* Without the test of negative elapsed time.
IdleUnsigned(t, s) == ~AutoDue(t, s) /\ ~AlertDue(t, s)

\* The loop passes a session without an await: negative elapsed time, or
\* neither policy applies.
Idle(t, s) ==
  \/ ElapsedMs(t, s) < 0
  \/ ~AutoDue(t, s) /\ ~AlertDue(t, s)

RECURSIVE SkipIdle(_, _)
SkipIdle(t, cur) ==
  IF cur = <<>> THEN <<>>
  ELSE IF Idle(t, Head(cur)) THEN SkipIdle(t, Tail(cur))
  ELSE cur

CountUp(d, sessionId) ==
  IF sessionId \in DOMAIN d
  THEN [d EXCEPT ![sessionId] = d[sessionId] + 1]
  ELSE [x \in DOMAIN d \cup {sessionId} |->
          IF x = sessionId THEN 1 ELSE d[x]]

\* update({ alert_triggered: true }).eq('id', sessionId)
UpdateAlert(rows, sessionId) ==
  [i \in 1..Len(rows) |->
     IF rows[i].id = sessionId
     THEN [rows[i] EXCEPT !.alert_triggered = TRUE]
     ELSE rows[i]]

\* The loop ends at its first await.
ContinueUnlessAwaited(t, rest, sync) ==
  IF ~sync \/ SkipIdle(t, rest) = <<>> THEN {}
  ELSE {[t EXCEPT !.cur = SkipIdle(t, rest), !.pc = "loop", !.sync = sync]}

\* The loop stays at the session it has handled.
ContinueAtSame(t, rest, sync) ==
  IF SkipIdle(t, t.cur) = <<>> THEN {}
  ELSE {[t EXCEPT !.cur = SkipIdle(t, t.cur), !.pc = "loop", !.sync = sync]}

\* The tick t with the rest of its loop, or no tick when the loop is over.
Continue(t, rest, sync) ==
  IF SkipIdle(t, rest) = <<>> THEN {}
  ELSE {[t EXCEPT !.cur = SkipIdle(t, rest), !.pc = "loop", !.sync = sync]}

\* The interval that also starts a resync when the last one failed.
MonitorFireRetry ==
  /\ NoSyncRun
  /\ timerElapsed >= MsPerMinute
  /\ timerElapsed' = 0
  /\ LET t == [cur |-> activeSessionsRef, now |-> DateNow,
               settings |-> appSettings, demo |-> demoMode,
               patrons |-> patrons, pc |-> "loop", sync |-> TRUE]
     IN ticks' = ticks \cup Continue(t, t.cur, TRUE)
  /\ fetches' = IF syncStatus = "error" /\ ~demoMode
                THEN fetches \cup {NewFetch(TRUE, FALSE)} ELSE fetches
  /\ UNCHANGED <<clockVars, remoteVars, demoMode, patrons, viewVars,
                 activeSessionsRef, statusVars, appSettings, initVars,
                 dispatched>>

\* setInterval(monitor, 60000) fires: monitor() starts over the ref and the
\* values of the render that created the interval.
MonitorFire ==
  /\ NoSyncRun
  /\ timerElapsed >= MsPerMinute
  /\ timerElapsed' = 0
  /\ LET t == [cur |-> activeSessionsRef, now |-> DateNow,
               settings |-> appSettings, demo |-> demoMode,
               patrons |-> patrons, pc |-> "loop", sync |-> TRUE]
     IN ticks' = ticks \cup Continue(t, t.cur, TRUE)
  /\ UNCHANGED <<clockVars, remoteVars, fetches, demoMode, patrons, viewVars,
                 activeSessionsRef, statusVars, appSettings, initVars,
                 dispatched>>

\* monitor() runs from one await to the next.
MonitorStep(t) ==
  /\ t.sync \/ NoSyncRun
  /\ LET s == Head(t.cur) IN
     IF t.pc = "sent"
     THEN \* line 409: the flag is written in connected mode only
          /\ IF ~t.demo
             THEN /\ \E ok \in BOOLEAN :
                       IF ok
                       THEN /\ remote' = UpdateAlert(remote, s.id)
                            /\ pendingNotifs' = Notified(HasRow(remote, s.id))
                       ELSE UNCHANGED <<remote, pendingNotifs>>
                  /\ ticks' = (ticks \ {t}) \cup Continue(t, Tail(t.cur), FALSE)
             ELSE /\ UNCHANGED <<remote, pendingNotifs>>
                  /\ ticks' = (ticks \ {t}) \cup Continue(t, Tail(t.cur), TRUE)
          /\ UNCHANGED <<viewVars, statusVars, dispatched>>
     ELSE IF AutoDue(t, s)
     THEN /\ CheckOutBody(s.id, AutoNotes, t.demo)
          /\ ticks' = (ticks \ {t}) \cup
               Continue(t, Tail(t.cur),
                        t.demo \/ FindById(activeSessionsRef, s.id) = 0)
          /\ UNCHANGED dispatched
     ELSE \* sendOverdueAlert(patron, Math.floor(durationMins), email)
          /\ dispatched' = CountUp(dispatched, s.id)
          /\ ticks' = (ticks \ {t}) \cup {[t EXCEPT !.pc = "sent", !.sync = FALSE]}
          /\ UNCHANGED <<remote, pendingNotifs, viewVars, statusVars>>
  /\ UNCHANGED <<clockVars, remoteSettings, fetches, demoMode, patrons,
                 activeSessionsRef, appSettings, initVars, timerElapsed>>

\* ------------------------------------------------------------------ Next

Next ==
  \/ \E d \in ClockSteps : Advance(d)
  \/ \E d \in {0, HalfMinute, 0 - HalfMinute} : ClockAdjust(d)
  \/ Render
  \/ \E i \in DOMAIN inits : init(i)
  \/ onRefresh
  \/ RealtimeEvent
  \/ \E f \in fetches : FetchRead(f)
  \/ \E f \in fetches : FetchApply(f)
  \/ \E f \in fetches : FetchFail(f)
  \/ handleSignOut
  \/ onLoginClick
  \/ \E studentId \in Patrons : handleCheckIn(studentId)
  \/ \E sessionId \in SessionIds, notes \in NotesInputs \cup {NoNotes} :
       handleCheckOut(sessionId, notes)
  \/ \E newSettings \in SettingsChoices : saveGlobalSettings(newSettings)
  \/ MonitorFire
  \/ \E t \in ticks : MonitorStep(t)

Spec == Init /\ [][Next]_vars

\* ------------------------------------------ the connected session lifecycle

ConnMaxClock == 30000
ConnMaxRows == 2
ConnMaxFetches == 1
ConnMaxNotifs == 1

\* The client stays connected, no request fails, and the operator checks
\* patrons in and out within the first ConnMaxClock ms.
ConnRegion ==
  /\ ~demoMode
  /\ syncError = "null"
  /\ clock <= ConnMaxClock
  /\ Len(remote) <= ConnMaxRows
  /\ Cardinality(fetches) <= ConnMaxFetches
  /\ pendingNotifs <= ConnMaxNotifs

NextConn ==
  \/ Advance(HalfMinute) /\ ConnRegion'
  \/ Render /\ ConnRegion'
  \/ \E i \in DOMAIN inits : init(i) /\ ConnRegion'
  \/ onRefresh /\ ConnRegion'
  \/ RealtimeEvent /\ ConnRegion'
  \/ \E f \in fetches : FetchRead(f) /\ ConnRegion'
  \/ \E f \in fetches : FetchApply(f) /\ ConnRegion'
  \/ \E studentId \in Patrons : handleCheckIn(studentId) /\ ConnRegion'
  \/ \E sessionId \in SessionIds, notes \in NotesInputs \cup {NoNotes} :
       handleCheckOut(sessionId, notes) /\ ConnRegion'

SpecConn == Init /\ [][NextConn]_vars

\* ------------------------------------------------- the demo-mode client

DemoMaxClock == 30000
DemoMaxToday == 2
DemoMaxHistory == 3

\* The health probe fails, the client falls back to demo mode and stays in it;
\* the operator refreshes and checks patrons in and out within the first
\* DemoMaxClock ms.
DemoRegion ==
  /\ demoMode
  /\ clock <= DemoMaxClock
  /\ Len(todaySessions) <= DemoMaxToday
  /\ Len(sessionHistory) <= DemoMaxHistory

NextDemo ==
  \/ Advance(HalfMinute) /\ DemoRegion'
  \/ Render /\ DemoRegion'
  \/ \E i \in DOMAIN inits : init(i) /\ DemoRegion'
  \/ onRefresh /\ DemoRegion'
  \/ \E studentId \in Patrons : handleCheckIn(studentId) /\ DemoRegion'
  \/ \E sessionId \in SessionIds, notes \in NotesInputs \cup {NoNotes} :
       handleCheckOut(sessionId, notes) /\ DemoRegion'

SpecDemo == Init /\ [][NextDemo]_vars

\* ------------------------------------------- the monitor in demo mode

WatchMaxHours == 3
WatchMaxMinutes == 1
WatchMaxToday == 1

\* The client is in demo mode with the default policy (alert after 180
\* minutes); one patron is checked in and the monitor runs for WatchMaxHours
\* hours and WatchMaxMinutes minutes; a tick starts when the one before it
\* has ended.
WatchRegion ==
  /\ demoMode
  /\ clock <= WatchMaxHours * MsPerHour + WatchMaxMinutes * MsPerMinute
  /\ Len(todaySessions) <= WatchMaxToday
  /\ sessionHistory = <<>>

NextWatch ==
  \/ \E d \in {MsPerMinute, MsPerHour} : Advance(d) /\ WatchRegion'
  \/ Render /\ WatchRegion'
  \/ \E i \in DOMAIN inits : init(i) /\ WatchRegion'
  \/ onRefresh /\ WatchRegion'
  \/ handleCheckIn("ST-001") /\ WatchRegion'
  \/ MonitorFire /\ ticks = {} /\ WatchRegion'
  \/ \E t \in ticks : MonitorStep(t) /\ WatchRegion'

SpecWatch == Init /\ [][NextWatch]_vars

\* ------------------------------------- overdue alerts of a connected client

AlertMaxHours == 3
AlertMaxFetches == 2
AlertMaxNotifs == 1

\* The client stays connected with the default policy (alert after 180
\* minutes), no request fails, one patron is checked in, and up to
\* AlertMaxFetches resyncs are in flight at a time.
AlertRegion ==
  /\ ~demoMode
  /\ syncError = "null"
  /\ clock <= AlertMaxHours * MsPerHour
  /\ Len(remote) <= 1
  /\ Cardinality(fetches) <= AlertMaxFetches
  /\ pendingNotifs <= AlertMaxNotifs
  /\ \A f \in fetches : f.read

NextAlert ==
  \/ Advance(MsPerHour) /\ AlertRegion'
  \/ Render /\ AlertRegion'
  \/ \E i \in DOMAIN inits : init(i) /\ AlertRegion'
  \/ onRefresh /\ AlertRegion'
  \/ RealtimeEvent /\ AlertRegion'
  \/ \E f \in fetches : FetchApply(f) /\ AlertRegion'
  \/ handleCheckIn("ST-001") /\ AlertRegion'
  \/ MonitorFire /\ ticks = {} /\ AlertRegion'
  \/ \E t \in ticks : MonitorStep(t) /\ AlertRegion'

SpecAlert == Init /\ [][NextAlert]_vars

\* ------------------------------------------------- recorded durations

DurMaxHalfMinutes == 3
DurMaxFetches == 1
DurMaxNotifs == 1
DurMaxHistory == 2

\* One patron is checked in and out by the operator, connected and after a
\* fall-back to demo mode, with no request failing, within DurMaxHalfMinutes half minutes; the device's wall
\* clock may be set half a minute back and forth again.
DurRegion ==
  /\ syncError = "null"
  /\ clock <= DurMaxHalfMinutes * HalfMinute
  /\ Len(remote) <= 1
  /\ Len(todaySessions) <= 1
  /\ Len(sessionHistory) <= DurMaxHistory
  /\ Cardinality(fetches) <= DurMaxFetches
  /\ pendingNotifs <= DurMaxNotifs
  /\ \A f \in fetches : f.read

NextDur ==
  \/ Advance(HalfMinute) /\ DurRegion'
  \/ \E d \in {0, 0 - HalfMinute} : ClockAdjust(d) /\ DurRegion'
  \/ Render /\ DurRegion'
  \/ \E i \in DOMAIN inits : init(i) /\ DurRegion'
  \/ onRefresh /\ DurRegion'
  \/ RealtimeEvent /\ DurRegion'
  \/ \E f \in fetches : FetchApply(f) /\ DurRegion'
  \/ handleSignOut /\ DurRegion'
  \/ handleCheckIn("ST-001") /\ DurRegion'
  \/ \E sessionId \in SessionIds : handleCheckOut(sessionId, NoNotes) /\ DurRegion'

SpecDur == Init /\ [][NextDur]_vars

\* ------------------------------------------- resyncs racing each other

RaceMaxRows == 1
RaceMaxFetches == 2
RaceMaxNotifs == 2

\* The client stays connected, no request fails, one patron is checked in and
\* out, and up to RaceMaxFetches resyncs are in flight at a time, each
\* answered as one snapshot.
RaceRegion ==
  /\ ~demoMode
  /\ syncError = "null"
  /\ Len(remote) <= RaceMaxRows
  /\ Cardinality(fetches) <= RaceMaxFetches
  /\ pendingNotifs <= RaceMaxNotifs
  /\ \A f \in fetches : f.read

NextRace ==
  \/ Render /\ RaceRegion'
  \/ \E i \in DOMAIN inits : init(i) /\ RaceRegion'
  \/ onRefresh /\ RaceRegion'
  \/ RealtimeEvent /\ RaceRegion'
  \/ \E f \in fetches : FetchApply(f) /\ RaceRegion'
  \/ handleCheckIn("ST-001") /\ RaceRegion'
  \/ \E sessionId \in SessionIds : handleCheckOut(sessionId, NoNotes) /\ RaceRegion'

SpecRace == Init /\ [][NextRace]_vars

\* ------------------------------------------------ auto-checkout policy

AutoMaxHalfDays == 1
AutoMaxMinutes == 1
AutoMaxRows == 2
AutoMaxFetches == 1
AutoMaxNotifs == 1
AutoMaxHistory == 2
AutoMaxDispatch == 1

AutoChoices == {DEFAULT_SETTINGS, AutoSettings}

AutoLimitMs == AutoSettings.autoCheckoutHours * MsPerHour

\* Either mode, with the auto-checkout switch turned on and off and writes
\* that may be rejected; the clock moves by minutes and by the auto-checkout
\* limit; no two sessions of the demo store were checked in in the same
\* millisecond.
AutoRegion ==
  /\ clock \div AutoLimitMs <= AutoMaxHalfDays
  /\ clock % AutoLimitMs <= AutoMaxMinutes * MsPerMinute
  /\ Len(remote) <= AutoMaxRows
  /\ Cardinality(fetches) <= AutoMaxFetches
  /\ pendingNotifs <= AutoMaxNotifs
  /\ \A f \in fetches : f.read
  /\ Len(sessionHistory) <= AutoMaxHistory
  /\ Len(todaySessions) <= AutoMaxRows
  /\ \A id \in DOMAIN dispatched : dispatched[id] <= AutoMaxDispatch
  /\ \A i, j \in DOMAIN activeSessions :
       activeSessions[i].id = activeSessions[j].id => i = j

NextAuto ==
  \/ \E d \in {MsPerMinute, AutoLimitMs} : Advance(d) /\ AutoRegion'
  \/ Render /\ AutoRegion'
  \/ \E i \in DOMAIN inits : init(i) /\ AutoRegion'
  \/ onRefresh /\ AutoRegion'
  \/ RealtimeEvent /\ AutoRegion'
  \/ \E f \in fetches : FetchApply(f) /\ AutoRegion'
  \/ \E studentId \in Patrons : handleCheckIn(studentId) /\ AutoRegion'
  \/ \E newSettings \in AutoChoices :
       saveGlobalSettings(newSettings) /\ AutoRegion'
  \/ MonitorFire /\ AutoRegion'
  \/ \E t \in ticks : MonitorStep(t) /\ AutoRegion'

SpecAuto == Init /\ [][NextAuto]_vars

\* ------------------------------------ auto-checkout after one hour

HourMaxHours == 1
HourMaxMinutes == 1
HourMaxRows == 1
HourMaxFetches == 1
HourMaxNotifs == 1

\* The client starts against a store whose settings row is HourSettings.
InitHour ==
  /\ clock = 0
  /\ skew = 0
  /\ remote = <<>>
  /\ remoteSettings = <<HourSettings>>
  /\ pendingNotifs = 0
  /\ fetches = {}
  /\ demoMode = FALSE
  /\ patrons = {}
  /\ activeSessions = <<>>
  /\ sessionHistory = <<>>
  /\ todaySessions = <<>>
  /\ activeSessionsRef = <<>>
  /\ syncStatus = "online"
  /\ syncError = "null"
  /\ appSettings = DEFAULT_SETTINGS
  /\ authLoading = TRUE
  /\ inits = <<[demo |-> FALSE]>>
  /\ timerElapsed = 0
  /\ ticks = {}
  /\ dispatched = <<>>

\* The client stays connected, no request fails, one patron is checked in,
\* the clock moves by an hour and by minutes, and a tick starts when the one
\* before it has ended.
HourRegion ==
  /\ ~demoMode
  /\ syncError = "null"
  /\ clock \div MsPerHour <= HourMaxHours
  /\ clock % MsPerHour <= HourMaxMinutes * MsPerMinute
  /\ Len(remote) <= HourMaxRows
  /\ Cardinality(fetches) <= HourMaxFetches
  /\ pendingNotifs <= HourMaxNotifs
  /\ \A f \in fetches : f.read

NextHour ==
  \/ \E d \in {MsPerMinute, MsPerHour} : Advance(d) /\ HourRegion'
  \/ Render /\ HourRegion'
  \/ \E i \in DOMAIN inits : init(i) /\ HourRegion'
  \/ onRefresh /\ HourRegion'
  \/ RealtimeEvent /\ HourRegion'
  \/ \E f \in fetches : FetchApply(f) /\ HourRegion'
  \/ handleCheckIn("ST-001") /\ HourRegion'
  \/ MonitorFire /\ ticks = {} /\ HourRegion'
  \/ \E t \in ticks : MonitorStep(t) /\ HourRegion'

SpecHour == InitHour /\ [][NextHour]_vars

\* ------------------------------------------- the wall clock set back

SkewMaxMinutes == 1
SkewMaxToday == 2
SkewMaxDispatch == 1

SkewChoices == {AlertSettings, EarlySettings}

\* The client is in demo mode, two patrons are checked in, the wall clock is
\* set back by a minute and forth, alerts are due after one minute or
\* earlier, and a tick starts when the one before it has ended.
SkewRegion ==
  /\ demoMode
  /\ clock <= SkewMaxMinutes * MsPerMinute
  /\ Len(todaySessions) <= SkewMaxToday
  /\ \A id \in DOMAIN dispatched : dispatched[id] <= SkewMaxDispatch
  /\ \A i, j \in DOMAIN activeSessions :
       activeSessions[i].id = activeSessions[j].id => i = j

NextSkew ==
  \/ Advance(MsPerMinute) /\ SkewRegion'
  \/ \E d \in {0, -MsPerMinute} : ClockAdjust(d) /\ SkewRegion'
  \/ Render /\ SkewRegion'
  \/ \E i \in DOMAIN inits : init(i) /\ SkewRegion'
  \/ onRefresh /\ SkewRegion'
  \/ \E studentId \in Patrons : handleCheckIn(studentId) /\ SkewRegion'
  \/ \E newSettings \in SkewChoices :
       saveGlobalSettings(newSettings) /\ SkewRegion'
  \/ MonitorFire /\ ticks = {} /\ SkewRegion'
  \/ \E t \in ticks : MonitorStep(t) /\ SkewRegion'

SpecSkew == Init /\ [][NextSkew]_vars

\* ------------------------------------------- alerts tick after tick

NotifyMaxHours == 4
NotifyMaxRows == 1
NotifyMaxFetches == 1
NotifyMaxNotifs == 1
NotifyMaxDispatch == 2

\* The client stays connected with the default policy (alert after 180
\* minutes), no request fails, one patron is checked in, the monitor runs for
\* NotifyMaxHours hours, and a tick starts when the one before it has ended.
NotifyRegion ==
  /\ ~demoMode
  /\ syncError = "null"
  /\ clock <= NotifyMaxHours * MsPerHour
  /\ Len(remote) <= NotifyMaxRows
  /\ Cardinality(fetches) <= NotifyMaxFetches
  /\ pendingNotifs <= NotifyMaxNotifs
  /\ \A f \in fetches : f.read
  /\ \A id \in DOMAIN dispatched : dispatched[id] <= NotifyMaxDispatch

NextNotify ==
  \/ Advance(MsPerHour) /\ NotifyRegion'
  \/ Render /\ NotifyRegion'
  \/ \E i \in DOMAIN inits : init(i) /\ NotifyRegion'
  \/ onRefresh /\ NotifyRegion'
  \/ RealtimeEvent /\ NotifyRegion'
  \/ \E f \in fetches : FetchApply(f) /\ NotifyRegion'
  \/ handleCheckIn("ST-001") /\ NotifyRegion'
  \/ MonitorFire /\ ticks = {} /\ NotifyRegion'
  \/ \E t \in ticks : MonitorStep(t) /\ NotifyRegion'

SpecNotify == Init /\ [][NextNotify]_vars

\* ------------------------------------------- the monitor under resyncs

StarveMaxHours == 1
StarveMaxRows == 1
StarveMaxFetches == 1
StarveMaxNotifs == 2

\* Time passes when the clock has reached StarveMaxHours hours: the interval
\* of the monitor runs on, and the clock value is kept, since every later
\* time gives the same answers to the tests of the monitor for a session
\* that has reached its limit.
Elapse(d) ==
  /\ NoSyncRun
  /\ activeSessionsRef = activeSessions
  /\ clock = StarveMaxHours * MsPerHour
  /\ timerElapsed' = MinOf(timerElapsed + d, MsPerMinute)
  /\ UNCHANGED <<clockVars, remoteVars, fetches, demoMode, patrons, viewVars,
                 activeSessionsRef, statusVars, appSettings, initVars, ticks,
                 dispatched>>

\* The client stays connected to a store whose settings row is HourSettings,
\* no request fails, one patron is checked in, and resyncs go on.
StarveRegion ==
  /\ ~demoMode
  /\ syncError = "null"
  /\ clock <= StarveMaxHours * MsPerHour
  /\ Len(remote) <= StarveMaxRows
  /\ Cardinality(fetches) <= StarveMaxFetches
  /\ pendingNotifs <= StarveMaxNotifs
  /\ \A f \in fetches : f.read

StarveAdvance == Advance(MsPerHour) /\ StarveRegion'
StarveElapse == Elapse(HalfMinute) /\ StarveRegion'
StarveRender == Render /\ StarveRegion'
StarveInit == \E i \in DOMAIN inits : init(i) /\ StarveRegion'
StarveRefresh == onRefresh /\ StarveRegion'
StarveRealtime == RealtimeEvent /\ StarveRegion'
StarveApply == \E f \in fetches : FetchApply(f) /\ StarveRegion'
StarveCheckIn == handleCheckIn("ST-001") /\ StarveRegion'
StarveFire == MonitorFire /\ ticks = {} /\ StarveRegion'
StarveStep == \E t \in ticks : MonitorStep(t) /\ StarveRegion'

NextStarve ==
  \/ StarveAdvance
  \/ StarveElapse
  \/ StarveRender
  \/ StarveInit
  \/ StarveRefresh
  \/ StarveRealtime
  \/ StarveApply
  \/ StarveCheckIn
  \/ StarveFire
  \/ StarveStep

\* Time passes again and again, the interval fires whenever it comes due
\* again and again, and a render, an answered request, a delivered
\* notification and a step of a running tick are not put off for ever.
SpecStarve ==
  /\ InitHour
  /\ [][NextStarve]_vars
  /\ SF_vars(StarveElapse)
  /\ SF_vars(StarveFire)
  /\ WF_vars(StarveAdvance)
  /\ WF_vars(StarveRender)
  /\ WF_vars(StarveInit)
  /\ WF_vars(StarveRealtime)
  /\ WF_vars(StarveApply)
  /\ WF_vars(StarveStep)

\* ------------------------------------------------------ Dashboard

MaxCapacity == 3

\* appSettings.dailyCapacity: parseInt(e.target.value) || 0 of the Settings
\* page, or the daily_capacity of the settings row.
CapacityChoices == (-1)..MaxCapacity

\* The figure without the floor of zero.
SeatsUnclamped(capacity, sessions) == capacity - Len(sessions)

\* Math.max(0, capacity - activeSessions.length)
remainingSeats(capacity, sessions) == MaxOf(0, capacity - Len(sessions))

PercentMax == 100

\* The quotient without the ceiling of 100, as numerator and denominator.
OccupancyUncapped(capacity, sessions) ==
  <<Len(sessions) * PercentMax, capacity>>

\* 0 / 0 of IEEE 754 doubles, which Math.min hands on.
NaN == <<0, 0>>

\* Math.min((activeSessions.length / capacity) * 100, 100) as numerator and
\* denominator of the exact quotient: n / 0 is Infinity for n > 0 and NaN
\* for n = 0, and a negative capacity gives a quotient at or below zero.
occupancyPercentage(capacity, sessions) ==
  IF capacity = 0
  THEN IF Len(sessions) = 0 THEN NaN ELSE <<PercentMax, 1>>
  ELSE IF capacity > 0 /\ Len(sessions) * PercentMax >= PercentMax * capacity
  THEN <<PercentMax, 1>>
  ELSE <<Len(sessions) * PercentMax, capacity>>

\* ------------------------------------------------ notes of a check-out

NotesExampleMinutes == 5
NotesMaxSteps == 1
NotesMaxRows == 1
NotesMaxFetches == 1
NotesMaxNotifs == 2
NotesMaxHistory == 2

\* Either mode, no request fails, one patron is checked in and out with and
\* without notes, and the clock moves by NotesExampleMinutes minutes.
NotesRegion ==
  /\ syncError = "null"
  /\ clock <= NotesMaxSteps * NotesExampleMinutes * MsPerMinute
  /\ Len(remote) <= NotesMaxRows
  /\ Cardinality(fetches) <= NotesMaxFetches
  /\ pendingNotifs <= NotesMaxNotifs
  /\ \A f \in fetches : f.read
  /\ Len(sessionHistory) <= NotesMaxHistory
  /\ Len(todaySessions) <= NotesMaxHistory

NextNotes ==
  \/ Advance(NotesExampleMinutes * MsPerMinute) /\ NotesRegion'
  \/ Render /\ NotesRegion'
  \/ \E i \in DOMAIN inits : init(i) /\ NotesRegion'
  \/ onRefresh /\ NotesRegion'
  \/ RealtimeEvent /\ NotesRegion'
  \/ \E f \in fetches : FetchApply(f) /\ NotesRegion'
  \/ handleCheckIn("ST-001") /\ NotesRegion'
  \/ \E sessionId \in SessionIds, notes \in NotesInputs \cup {NoNotes} :
       handleCheckOut(sessionId, notes) /\ NotesRegion'

SpecNotes == Init /\ [][NextNotes]_vars

\* --------------------------------------------------------------- claims

OpenRowOf(studentId) ==
  \E i \in DOMAIN remote : remote[i].patron_id = studentId /\ IsOpenRow(remote[i])

OpenInView(studentId) ==
  \E i \in DOMAIN activeSessions :
    activeSessions[i].studentId = studentId /\ activeSessions[i].checkOut = Null

\* C1: neither the client's active-session view nor the sessions table ever
\* holds two sessions of one patron that both have no check-out.
C1_OneOpenSessionPerPatron ==
  /\ \A i, j \in DOMAIN remote :
       (/\ remote[i].patron_id = remote[j].patron_id
        /\ IsOpenRow(remote[i])
        /\ IsOpenRow(remote[j])) => i = j
  /\ \A i, j \in DOMAIN activeSessions :
       (/\ activeSessions[i].studentId = activeSessions[j].studentId
        /\ activeSessions[i].checkOut = Null
        /\ activeSessions[j].checkOut = Null) => i = j

\* C2: once a session's check-out is set (the remote row; in demo mode the
\* local session of today's list), its check-out time, duration and notes
\* are the same after every step.
C2_ClosedSessionImmutable ==
  [][/\ \A i \in DOMAIN remote :
          IsClosedRow(remote[i]) =>
            /\ remote'[i].check_out = remote[i].check_out
            /\ remote'[i].duration = remote[i].duration
            /\ remote'[i].notes = remote[i].notes
     /\ (demoMode /\ demoMode') =>
          \A i \in DOMAIN todaySessions :
            todaySessions[i].checkOut # Null =>
              /\ todaySessions'[i].checkOut = todaySessions[i].checkOut
              /\ todaySessions'[i].duration = todaySessions[i].duration
              /\ todaySessions'[i].notes = todaySessions[i].notes]_vars

\* C3: with one check-in and any number of monitor ticks after it, each
\* starting when the one before has ended, the dispatcher is invoked at most
\* once for the session.
C3_DispatchAtMostOnce ==
  \A sessionId \in DOMAIN dispatched : dispatched[sessionId] <= 1

\* alertTriggered = true is stored on the session: on its row, or on the
\* client's session.
Flagged(sessionId) ==
  \/ \E i \in DOMAIN remote :
       remote[i].id = sessionId /\ remote[i].alert_triggered
  \/ \E i \in DOMAIN activeSessions :
       activeSessions[i].id = sessionId /\ activeSessions[i].alertTriggered

\* A tick has called the dispatcher for the session and has not yet gone on.
Dispatching(sessionId) ==
  \E t \in ticks : t.pc = "sent" /\ Head(t.cur).id = sessionId

\* C4: when a tick has dispatched for a session and gone on to the next
\* session (or ended), alertTriggered = true is stored on that session.
C4_FlagPersistedWithDispatch ==
  \A sessionId \in DOMAIN dispatched :
    ~Dispatching(sessionId) => Flagged(sessionId)

\* C5: alertTriggered of a session never goes back from true to false, in
\* the row of the table and in the client's active-session view.
C5_AlertTriggeredMonotonic ==
  [][/\ \A i \in DOMAIN remote :
          remote[i].alert_triggered => remote'[i].alert_triggered
     /\ \A i \in DOMAIN activeSessions, j \in DOMAIN activeSessions' :
          (/\ activeSessions[i].alertTriggered
           /\ activeSessions'[j].id = activeSessions[i].id)
            => activeSessions'[j].alertTriggered]_vars

\* The patron has an open session in the store the client writes to.
HasOpenSession(studentId) ==
  IF demoMode THEN OpenInView(studentId) ELSE OpenRowOf(studentId)

\* C6: a check-in for a patron who has an open session creates no session and
\* leaves the store, the three views and the sync status as they were.
C6_CheckInOfOpenPatronIsNoOp ==
  [][\A studentId \in Patrons :
       (handleCheckIn(studentId) /\ HasOpenSession(studentId)) =>
         UNCHANGED <<remote, viewVars, statusVars>>]_vars

\* The session id has no open session in the store the client writes to:
\* it is unknown or its session is closed.
UnknownOrClosed(sessionId) ==
  IF demoMode
  THEN \A i \in DOMAIN activeSessions : activeSessions[i].id # sessionId
  ELSE \A i \in DOMAIN remote : remote[i].id = sessionId => IsClosedRow(remote[i])

\* C7: a check-out on an unknown or closed session id issues no remote
\* update, adds no history entry and leaves views and sync status unchanged.
C7_CheckOutOfClosedIsNoOp ==
  [][\A sessionId \in SessionIds, notes \in NotesInputs \cup {NoNotes} :
       (handleCheckOut(sessionId, notes) /\ UnknownOrClosed(sessionId)) =>
         UNCHANGED <<remote, viewVars, statusVars>>]_vars

\* The check-out times and durations recorded for a session id: in the
\* history view and in the table.
TimesOfSessions(arr) ==
  [i \in 1..Len(arr) |-> <<arr[i].checkOut, arr[i].duration>>]

TimesOfRows(rows) ==
  [i \in 1..Len(rows) |-> <<rows[i].check_out, rows[i].duration>>]

ClosedRecords(sessionId) ==
  [history |->
     TimesOfSessions(SelectSeq(sessionHistory, LAMBDA s : s.id = sessionId)),
   rows |->
     TimesOfRows(SelectSeq(remote,
                           LAMBDA r : r.id = sessionId /\ IsClosedRow(r)))]

IsClosed(sessionId) ==
  ClosedRecords(sessionId) # [history |-> <<>>, rows |-> <<>>]

\* C8: a check-out call that starts when another call has closed the session,
\* but the view it reads does not show it yet, adds no closed record and
\* changes neither the check-out time nor the duration recorded.
C8_SecondCheckOutClosesNothing ==
  [][\A sessionId \in SessionIds, notes \in NotesInputs \cup {NoNotes} :
       (handleCheckOut(sessionId, notes) /\ IsClosed(sessionId)) =>
         ClosedRecords(sessionId)' = ClosedRecords(sessionId)]_vars

\* The closed sessions the store and the views hold, as
\* <<check-in, check-out, duration>>.
ClosedDurations ==
  {<<remote[i].check_in, remote[i].check_out, remote[i].duration>> :
     i \in {k \in DOMAIN remote : IsClosedRow(remote[k])}} \cup
  {<<sessionHistory[i].checkIn, sessionHistory[i].checkOut,
     sessionHistory[i].duration>> : i \in DOMAIN sessionHistory} \cup
  {<<todaySessions[i].checkIn, todaySessions[i].checkOut,
     todaySessions[i].duration>> :
     i \in {k \in DOMAIN todaySessions : todaySessions[k].checkOut # Null}}

\* d is ms in whole minutes, to the nearest minute and a half up, and 1 when
\* that is less than 1.
IsMinutesOf(d, ms) ==
  /\ d >= 1
  /\ d = 1 => 2 * ms < 3 * MsPerMinute
  /\ d > 1 => /\ (2 * d - 1) * MsPerMinute <= 2 * ms
              /\ 2 * ms < (2 * d + 1) * MsPerMinute

\* C9: every closed session, closed in connected or in demo mode, has the
\* duration max(1, round((checkOut - checkIn) / 60000)), which is >= 1.
C9_RecordedDuration ==
  \A r \in ClosedDurations : IsMinutesOf(r[3], r[2] - r[1])

\* A row closed at or before its check-in time and a demo-mode session closed
\* less than half a minute after its check-in both have the duration 1.
C9_Witness ==
  /\ \E i \in DOMAIN remote :
       /\ IsClosedRow(remote[i])
       /\ remote[i].check_out <= remote[i].check_in
       /\ remote[i].duration = 1
  /\ \E i \in DOMAIN sessionHistory :
       /\ sessionHistory[i].id = LocalId(sessionHistory[i].checkIn)
       /\ sessionHistory[i].checkOut < sessionHistory[i].checkIn + HalfMinute
       /\ sessionHistory[i].duration = 1

\* C10: active sessions have neither check-out nor duration, history
\* sessions have both, and no session id is in both views.
C10_ActiveAndHistoryDisjoint ==
  /\ \A i \in DOMAIN activeSessions :
       activeSessions[i].checkOut = Null /\ activeSessions[i].duration = Null
  /\ \A i \in DOMAIN sessionHistory :
       sessionHistory[i].checkOut # Null /\ sessionHistory[i].duration # Null
  /\ \A i \in DOMAIN activeSessions, j \in DOMAIN sessionHistory :
       activeSessions[i].id # sessionHistory[j].id

InActiveView(sessionId) ==
  \E i \in DOMAIN activeSessions : activeSessions[i].id = sessionId

InHistoryView(sessionId) ==
  \E i \in DOMAIN sessionHistory : sessionHistory[i].id = sessionId

\* C11: a session the client shows closed (in its history view and not in
\* its active view) is not in its active view after any step.
C11_ClosedNeverReappears ==
  [][\A sessionId \in SessionIds :
       (InHistoryView(sessionId) /\ ~InActiveView(sessionId)) =>
         ~InActiveView(sessionId)']_vars

OpenRowOfId(sessionId) ==
  \E i \in DOMAIN remote : remote[i].id = sessionId /\ IsOpenRow(remote[i])

OpenRows == SelectSeq(remote, IsOpenRow)

\* The tick t is at a session whose elapsed whole minutes, at the time the
\* tick started, reach the hours of the settings the tick started with, and
\* those settings have auto-checkout enabled.
PastLimit(t) ==
  /\ t.pc = "loop"
  /\ t.settings.autoCheckoutEnabled
  /\ (t.now - Head(t.cur).checkIn) \div MsPerMinute >=
       t.settings.autoCheckoutHours * MinutesPerHour

\* The session the tick t is at is active: the array the check-out reads
\* holds it and the store the tick writes to has no check-out for it.
ActiveFor(t) ==
  /\ FindById(activeSessionsRef, Head(t.cur).id) # 0
  /\ IF t.demo THEN InActiveView(Head(t.cur).id)
     ELSE OpenRowOfId(Head(t.cur).id)

\* The step closes the session the tick t is at with the auto-checkout
\* notes and one active session fewer, or the store rejects the write and
\* the rejection is reported.
AutoClosed(t) ==
  IF t.demo
  THEN /\ Len(activeSessions') = Len(activeSessions) - 1
       /\ ~InActiveView(Head(t.cur).id)'
       /\ Len(sessionHistory') = Len(sessionHistory) + 1
       /\ sessionHistory'[1].id = Head(t.cur).id
       /\ sessionHistory'[1].checkOut # Null
       /\ sessionHistory'[1].notes = AutoNotes
  ELSE \/ syncStatus' = "error" /\ remote' = remote
       \/ /\ Len(OpenRows') = Len(OpenRows) - 1
          /\ \A i \in DOMAIN remote :
               remote[i].id = Head(t.cur).id =>
                 /\ remote'[i].check_out # Null
                 /\ remote'[i].notes = AutoNotes

NothingClosed ==
  /\ Len(remote') = Len(remote)
  /\ \A i \in DOMAIN remote : remote'[i].check_out = remote[i].check_out
  /\ activeSessions' = activeSessions
  /\ sessionHistory' = sessionHistory
  /\ todaySessions' = todaySessions

C13_ForcedCloseRecordsLimit ==
  \A i \in DOMAIN remote :
    (/\ remote[i].check_in = 0
     /\ remote[i].check_out = MsPerHour + MsPerMinute
     /\ remote[i].notes = AutoNotes) =>
      remote[i].duration = HourSettings.autoCheckoutHours * MinutesPerHour

AlertFlags == [i \in 1..Len(remote) |-> remote[i].alert_triggered]

\* The tick that continues after the step is past the session sessionId.
TickPast(sessionId) ==
  \A u \in ticks' \ ticks : FindById(u.cur, sessionId) = 0

\* The tick that continues after the step has sent the alert of the session
\* it is at and has its flag left to write.
TickSent(sessionId) ==
  \A u \in ticks' \ ticks : u.pc = "sent" /\ Head(u.cur).id = sessionId

\* C14: a step of a tick that force-closes a session neither invokes the
\* dispatcher nor writes alertTriggered, and the tick goes on past that
\* session; a step of a tick that invokes the dispatcher or writes
\* alertTriggered for a session closes nothing, and the tick goes on with the
\* flag of that session or past it.
C14_AutoCheckoutExcludesAlert ==
  [][\A t \in ticks :
       MonitorStep(t) =>
         /\ PastLimit(t) =>
              /\ dispatched' = dispatched
              /\ AlertFlags' = AlertFlags
              /\ TickPast(Head(t.cur).id)
         /\ (dispatched' # dispatched \/ AlertFlags' # AlertFlags) =>
              /\ NothingClosed
              /\ ~PastLimit(t)
              /\ TickSent(Head(t.cur).id) \/ TickPast(Head(t.cur).id)]_vars

\* The monitor has closed a session that was past the alert threshold too,
\* and no alert was dispatched and no flag written for it.
C14_Witness ==
  \E i \in DOMAIN remote :
    /\ IsClosedRow(remote[i])
    /\ remote[i].notes = AutoNotes
    /\ remote[i].duration >= AutoSettings.thresholdMinutes
    /\ ~remote[i].alert_triggered
    /\ remote[i].id \notin DOMAIN dispatched

\* What a tick that starts now reads.
FiredTick == [now |-> DateNow, settings |-> appSettings, patrons |-> patrons]

\* A policy applies to the session s in the tick t, whose elapsed time is not
\* negative.
DueIn(t, s) ==
  /\ t.now >= s.checkIn
  /\ AutoDue(t, s) \/ AlertDue(t, s)

\* The tick t is in progress after the step, at or before the session
\* sessionId.
StillToProcess(t, sessionId) ==
  \E u \in ticks' : u.now = t.now /\ FindById(u.cur, sessionId) # 0

\* The step changes nothing of the sessions other than sessionId.
OthersUntouched(sessionId) ==
  /\ \A id \in DOMAIN dispatched \ {sessionId} :
       dispatched'[id] = dispatched[id]
  /\ DOMAIN dispatched' \subseteq DOMAIN dispatched \cup {sessionId}
  /\ Len(remote') = Len(remote)
  /\ \A i \in DOMAIN remote : remote[i].id # sessionId => remote'[i] = remote[i]
  /\ SelectSeq(activeSessions', LAMBDA s : s.id # sessionId) =
       SelectSeq(activeSessions, LAMBDA s : s.id # sessionId)
  /\ SelectSeq(sessionHistory', LAMBDA s : s.id # sessionId) =
       SelectSeq(sessionHistory, LAMBDA s : s.id # sessionId)
  /\ SelectSeq(todaySessions', LAMBDA s : s.id # sessionId) =
       SelectSeq(todaySessions, LAMBDA s : s.id # sessionId)

\* C15: the monitor handles a session only when its check-in is not later
\* than the time of the tick, and handling one session changes nothing of
\* the others: a session with negative elapsed time is neither closed nor
\* alerted and stays as it was.  Every other session of the tick that a
\* policy applies to is still handled in the tick.
C15_NegativeElapsedSkipped ==
  [][/\ MonitorFire =>
          /\ NothingClosed
          /\ dispatched' = dispatched
          /\ remote' = remote
          /\ \A i \in DOMAIN activeSessionsRef :
               DueIn(FiredTick, activeSessionsRef[i]) =>
                 StillToProcess(FiredTick, activeSessionsRef[i].id)
     /\ \A t \in ticks :
          MonitorStep(t) =>
            /\ t.now >= Head(t.cur).checkIn
            /\ OthersUntouched(Head(t.cur).id)
            /\ \A i \in 2..Len(t.cur) :
                 DueIn(t, t.cur[i]) => StillToProcess(t, t.cur[i].id)]_vars

\* A tick has passed over a session checked in after the time of the tick,
\* which an alert threshold below zero would select, and has alerted a
\* session that comes after it.
C15_Witness ==
  \E t \in ticks :
    /\ t.pc = "sent"
    /\ t.settings = EarlySettings
    /\ \E i \in DOMAIN activeSessionsRef :
         /\ activeSessionsRef[i].checkIn > t.now
         /\ i < FindById(activeSessionsRef, Head(t.cur).id)
         /\ activeSessionsRef[i].id \notin DOMAIN dispatched
         /\ activeSessions[i] = activeSessionsRef[i]

\* The alertTriggered of the session sessionId is false where the session is
\* kept: in the sessions table of a connected client, in the active view of
\* a demo client.
FlagClear(t, sessionId) ==
  IF t.demo
  THEN \A i \in DOMAIN activeSessions :
         activeSessions[i].id = sessionId => ~activeSessions[i].alertTriggered
  ELSE \A i \in DOMAIN remote :
         remote[i].id = sessionId => ~remote[i].alert_triggered

\* The step invokes the dispatcher for the session sessionId.
Dispatches(sessionId) ==
  /\ sessionId \in DOMAIN dispatched'
  /\ sessionId \in DOMAIN dispatched =>
       dispatched'[sessionId] > dispatched[sessionId]

\* C16: a step invokes the dispatcher for a session only as the step of a
\* tick at that session with notifications enabled, the session's
\* alertTriggered false, its elapsed minutes at the threshold or above,
\* auto-checkout not firing for it, and its patron in the registry.
C16_DispatchOnlyWhenDue ==
  [][\A sessionId \in SessionIds :
       Dispatches(sessionId) =>
         \E t \in ticks :
           /\ MonitorStep(t)
           /\ Head(t.cur).id = sessionId
           /\ t.settings.notifEnabled
           /\ FlagClear(t, sessionId)
           /\ (t.now - Head(t.cur).checkIn) \div MsPerMinute >=
                t.settings.thresholdMinutes
           /\ ~PastLimit(t)
           /\ NothingClosed
           /\ Head(t.cur).studentId \in t.patrons]_vars

\* The step of the tick t is a write to the store that changes no row: the
\* forced check-out or the write of the alert flag is rejected, or matches
\* no row.
WriteFailed(t) ==
  /\ ~t.demo
  /\ t.pc = "sent" \/ PastLimit(t)
  /\ remote' = remote

\* The tick t goes on after the step, with every session after the one it
\* was at that a policy applies to.
RestGoesOn(t) ==
  \A i \in 2..Len(t.cur) :
    DueIn(t, t.cur[i]) =>
      \E u \in ticks' :
        /\ u.now = t.now
        /\ u.pc = "loop"
        /\ FindById(u.cur, t.cur[i].id) # 0

\* C17: when the write of a forced check-out or of an alert flag fails in a
\* step of a tick, the tick goes on with the sessions after it: the failure
\* ends neither the tick nor the monitor.
C17_FailureDoesNotAbortTick ==
  [][\A t \in ticks : (MonitorStep(t) /\ WriteFailed(t)) => RestGoesOn(t)]_vars

\* The forced check-out of the first of two sessions was rejected and
\* reported, the session is still open, and the tick is at the second.
C17_Witness ==
  \E u \in ticks :
    /\ ~u.demo
    /\ u.pc = "loop"
    /\ ~u.sync
    /\ syncStatus = "error"
    /\ Len(activeSessionsRef) = 2
    /\ u.cur = <<activeSessionsRef[2]>>
    /\ u.now >= activeSessionsRef[1].checkIn
    /\ AutoDue(u, activeSessionsRef[1])
    /\ OpenRowOfId(activeSessionsRef[1].id)

\* C18: at no time are two executions of the monitor in progress in the
\* client.
C18_TicksNeverOverlap == Cardinality(ticks) <= 1

\* The client shows an open session of the store that has reached the
\* auto-checkout limit, with auto-checkout enabled.
OverdueActive ==
  /\ appSettings.autoCheckoutEnabled
  /\ \E i \in DOMAIN remote :
       /\ IsOpenRow(remote[i])
       /\ FindById(activeSessionsRef, remote[i].id) # 0
       /\ DateNow - remote[i].check_in >=
            appSettings.autoCheckoutHours * MsPerHour

ForceClosed ==
  \E i \in DOMAIN remote : IsClosedRow(remote[i]) /\ remote[i].notes = AutoNotes

\* C19: with auto-checkout enabled, an active session that has reached the
\* limit is eventually force-closed by the monitor, also when resyncs go on.
C19_EventuallyForceClosed == OverdueActive ~> ForceClosed

\* The sessions of the active view with no check-out.
CheckOutAbsent ==
  {i \in DOMAIN activeSessions : activeSessions[i].checkOut = Null}

\* C20: for the active view and any daily capacity, the active total the
\* Dashboard counts is the number of sessions with no check-out, and the
\* remaining seats are max(0, capacity - active total): never negative, zero
\* when the total exceeds the capacity, and otherwise summing with the total
\* to at most the capacity.
C20_RemainingSeats ==
  \A capacity \in CapacityChoices :
    LET activeTotal == Cardinality(CheckOutAbsent)
        seats == remainingSeats(capacity, activeSessions)
    IN /\ Len(activeSessions) = activeTotal
       /\ seats = IF capacity - activeTotal >= 0
                  THEN capacity - activeTotal ELSE 0
       /\ seats >= 0
       /\ activeTotal <= capacity => seats + activeTotal <= capacity
       /\ activeTotal > capacity => seats = 0

\* Two patrons are checked in: more than a capacity of one, fewer than
\* MaxCapacity.
C20_Witness ==
  /\ Len(activeSessions) = 2
  /\ remainingSeats(1, activeSessions) = 0
  /\ remainingSeats(MaxCapacity, activeSessions) = MaxCapacity - 2

PositiveCapacities == 1..MaxCapacity

\* The quotients a and b are the same number.
SameQuotient(a, b) == a[1] * b[2] = b[1] * a[2]

\* C21: for the active view and any positive daily capacity, the occupancy
\* percentage is min(100, active total / capacity * 100) and never exceeds
\* 100; with both patrons checked in and a capacity of 2 the active total is
\* 2, the remaining seats are 0 and the occupancy percentage is 100.
C21_OccupancyPercentage ==
  \A capacity \in PositiveCapacities :
    LET activeTotal == Cardinality(CheckOutAbsent)
        pct == occupancyPercentage(capacity, activeSessions)
    IN /\ pct[2] > 0
       /\ pct[1] <= PercentMax * pct[2]
       /\ SameQuotient(pct, IF activeTotal >= capacity
                            THEN <<PercentMax, 1>>
                            ELSE <<activeTotal * PercentMax, capacity>>)
       /\ (capacity = 2 /\ \A studentId \in Patrons : OpenInView(studentId)
           /\ Len(activeSessions) = 2) =>
            /\ activeTotal = 2
            /\ remainingSeats(capacity, activeSessions) = 0
            /\ SameQuotient(pct, <<PercentMax, 1>>)

\* Both patrons are checked in, one after the other: full at a capacity of
\* 2, over a capacity of 1, and two thirds of MaxCapacity.
C21_Witness ==
  /\ Len(activeSessions) = 2
  /\ activeSessions[1].studentId # activeSessions[2].studentId
  /\ occupancyPercentage(2, activeSessions) = <<PercentMax, 1>>
  /\ occupancyPercentage(1, activeSessions) = <<PercentMax, 1>>
  /\ occupancyPercentage(MaxCapacity, activeSessions)[1] <
       PercentMax * occupancyPercentage(MaxCapacity, activeSessions)[2]

\* The notes a check-out called with notes is to record.
NotesToRecord(notes) ==
  IF notes = NoNotes \/ notes = "" THEN "Manual Checkout" ELSE notes

\* A check-out without notes NotesExampleMinutes minutes after a check-in at
\* t = 0 records NotesExampleMinutes as the duration.
ExampleHolds(checkIn, checkOut, duration, notes) ==
  (/\ checkIn = 0
   /\ checkOut = NotesExampleMinutes * MsPerMinute
   /\ notes = "Manual Checkout") => duration = NotesExampleMinutes

\* C22: a check-out called without notes (absent or the empty string) records
\* the notes "Manual Checkout", a check-out called with notes records exactly
\* those; a check-out without notes 5 minutes after a check-in at t = 0
\* records a duration of 5.
C22_CheckOutNotes ==
  [][\A sessionId \in SessionIds, notes \in NotesInputs \cup {NoNotes} :
       handleCheckOut(sessionId, notes) =>
         /\ remote' # remote =>
              \A i \in DOMAIN remote :
                remote[i].id = sessionId =>
                  /\ remote'[i].notes = NotesToRecord(notes)
                  /\ ExampleHolds(remote'[i].check_in, remote'[i].check_out,
                                  remote'[i].duration, remote'[i].notes)
         /\ sessionHistory' # sessionHistory =>
              /\ sessionHistory'[1].id = sessionId
              /\ sessionHistory'[1].notes = NotesToRecord(notes)
              /\ ExampleHolds(sessionHistory'[1].checkIn,
                              sessionHistory'[1].checkOut,
                              sessionHistory'[1].duration,
                              sessionHistory'[1].notes)]_vars

\* The history of a demo client holds a check-out with notes and, before it,
\* the check-out without notes of the example.
C22_Witness ==
  /\ Len(sessionHistory) = 2
  /\ sessionHistory[1].notes = "Left early"
  /\ sessionHistory[2].notes = "Manual Checkout"
  /\ sessionHistory[2].checkIn = 0
  /\ sessionHistory[2].checkOut = NotesExampleMinutes * MsPerMinute
  /\ sessionHistory[2].duration = NotesExampleMinutes

\* The sync status is 'error' with a message.
FailureReported == syncStatus = "error" /\ syncError \notin {"null", ""}

\* The sessions table holds the session sessionId with its alert flag not set.
FlagUnset(sessionId) ==
  \E i \in DOMAIN remote :
    remote[i].id = sessionId /\ ~remote[i].alert_triggered

\* C23: a remote write that fails, leaving the table as it was (the insert of
\* a check-in, the update of a forced check-out, the update of the alert
\* flag), moves the sync status to 'error' and sets a message.
C23_FailureReported ==
  [][/\ \A studentId \in Patrons :
          (/\ handleCheckIn(studentId)
           /\ ~demoMode
           /\ ~HasPatron(activeSessionsRef, studentId)
           /\ remote' = remote) => FailureReported'
     /\ \A t \in ticks :
          (/\ MonitorStep(t)
           /\ ~t.demo
           /\ remote' = remote
           /\ \/ PastLimit(t) /\ ActiveFor(t)
              \/ t.pc = "sent" /\ FlagUnset(Head(t.cur).id)) =>
            FailureReported']_vars

DataUnchanged ==
  UNCHANGED <<patrons, activeSessions, sessionHistory, todaySessions,
              appSettings>>

\* The settings query of the resync f fails: the store holds a settings row
\* other than the client's settings and the resync does not apply it.
SettingsQueryFailed(f) ==
  /\ f.settings # <<>>
  /\ f.settings[1] # appSettings
  /\ appSettings' = appSettings

\* C24: a check-in whose insert fails, and a resync one of whose queries
\* fails, leave the patron list, the three session views and the settings
\* as they were.
C24_FailureLeavesDataUnchanged ==
  [][/\ \A studentId \in Patrons :
          (/\ handleCheckIn(studentId)
           /\ ~demoMode
           /\ ~HasPatron(activeSessionsRef, studentId)
           /\ remote' = remote) => DataUnchanged
     /\ \A f \in fetches :
          (FetchApply(f) /\ SettingsQueryFailed(f)) => DataUnchanged]_vars

\* ------------------------------------------------- switches of mode

ModesMaxMinutes == 1
ModesMaxRows == 1
ModesMaxFetches == 1
ModesMaxNotifs == 1
ModesMaxHistory == 1
ModesMaxToday == 1
ModesMaxInits == 1
ModesMaxDispatch == 1

\* The operator signs out and in again while one patron is checked in and
\* out, the settings are saved and the monitor runs; requests may fail.
ModesRegion ==
  /\ clock <= ModesMaxMinutes * MsPerMinute
  /\ Len(remote) <= ModesMaxRows
  /\ Cardinality(fetches) <= ModesMaxFetches
  /\ pendingNotifs <= ModesMaxNotifs
  /\ \A f \in fetches : f.read
  /\ Len(sessionHistory) <= ModesMaxHistory
  /\ Len(todaySessions) <= ModesMaxToday
  /\ Len(activeSessions) <= ModesMaxToday
  /\ Len(inits) <= ModesMaxInits
  /\ Cardinality(ticks) <= 1
  /\ \A id \in DOMAIN dispatched : dispatched[id] <= ModesMaxDispatch

NextModes ==
  \/ Advance(MsPerMinute) /\ ModesRegion'
  \/ Render /\ ModesRegion'
  \/ \E i \in DOMAIN inits : init(i) /\ ModesRegion'
  \/ onRefresh /\ ModesRegion'
  \/ RealtimeEvent /\ ModesRegion'
  \/ \E f \in fetches : FetchApply(f) /\ ModesRegion'
  \/ \E f \in fetches : FetchFail(f) /\ ModesRegion'
  \/ handleSignOut /\ ModesRegion'
  \/ onLoginClick /\ ModesRegion'
  \/ handleCheckIn("ST-001") /\ ModesRegion'
  \/ \E sessionId \in SessionIds :
       handleCheckOut(sessionId, NoNotes) /\ ModesRegion'
  \/ \E newSettings \in SettingsChoices :
       saveGlobalSettings(newSettings) /\ ModesRegion'
  \/ MonitorFire /\ ModesRegion'
  \/ \E t \in ticks : MonitorStep(t) /\ ModesRegion'

SpecModes == Init /\ [][NextModes]_vars

CheckInStep == \E studentId \in Patrons : handleCheckIn(studentId)

CheckOutStep ==
  \E sessionId \in SessionIds, notes \in NotesInputs \cup {NoNotes} :
    handleCheckOut(sessionId, notes)

\* C25: in connected mode a check-in and a check-out leave the active
\* sessions, the history and today's sessions of the client as they are, and
\* these views change only when a re-fetch applies its result.
C25_ConnectedWritesLeaveViews ==
  [][~demoMode =>
       /\ (CheckInStep \/ CheckOutStep) => UNCHANGED viewVars
       /\ viewVars' # viewVars => \E f \in fetches : FetchApply(f)]_vars

\* A check-out has been written to the store and the client still shows the
\* session as active, while a later check-in is in the store and not shown:
\* the change notification is yet to be delivered.
C25_Witness ==
  /\ ~demoMode
  /\ pendingNotifs > 0
  /\ \E i \in DOMAIN remote :
       IsClosedRow(remote[i]) /\ InActiveView(remote[i].id)
  /\ \E i \in DOMAIN remote :
       IsOpenRow(remote[i]) /\ ~InActiveView(remote[i].id)

RemoteUnchanged == UNCHANGED <<remote, remoteSettings>>

\* The check-in of studentId put one new open session at the end of the
\* active sessions and of today's sessions.
CheckInAdded(studentId) ==
  LET newSession == activeSessions'[Len(activeSessions')]
  IN /\ Len(activeSessions') = Len(activeSessions) + 1
     /\ newSession.studentId = studentId
     /\ newSession.checkOut = Null
     /\ activeSessions' = Append(activeSessions, newSession)
     /\ todaySessions' = Append(todaySessions, newSession)
     /\ sessionHistory' = sessionHistory

\* The check-out of sessionId took the session out of the active sessions,
\* put the closed session at the head of the history and in the place of its
\* entry in today's sessions.
CheckOutMoved(sessionId) ==
  LET closedSession == Head(sessionHistory')
  IN /\ activeSessions' =
          SelectSeq(activeSessions, LAMBDA s : s.id # sessionId)
     /\ Len(sessionHistory') = Len(sessionHistory) + 1
     /\ Tail(sessionHistory') = sessionHistory
     /\ closedSession.id = sessionId
     /\ closedSession.checkOut # Null
     /\ todaySessions' =
          [i \in 1..Len(todaySessions) |->
             IF todaySessions[i].id = sessionId THEN closedSession
             ELSE todaySessions[i]]

DemoEffects ==
  /\ \A studentId \in Patrons :
       handleCheckIn(studentId) /\ ~HasPatron(activeSessionsRef, studentId)
         => CheckInAdded(studentId)
  /\ \A sessionId \in SessionIds, notes \in NotesInputs \cup {NoNotes} :
       handleCheckOut(sessionId, notes)
       /\ FindById(activeSessionsRef, sessionId) # 0
         => CheckOutMoved(sessionId)

\* C26: while the client is in demo mode no step writes to the sessions or to
\* the settings of the remote store, and a check-in adds the new session to
\* the active sessions and to today's sessions, a check-out takes it out of
\* the active sessions, puts the closed session at the head of the history
\* and in the place of its entry in today's sessions.
C26_DemoNeverWritesRemote ==
  [][demoMode => RemoteUnchanged /\ DemoEffects]_vars

\* The same for the operations that began in demo mode only: a monitor tick
\* counts when the render that created its interval was in demo mode.
DemoStartedLeavesRemote ==
  [][demoMode =>
       /\ DemoEffects
       /\ \/ CheckInStep
          \/ CheckOutStep
          \/ \E newSettings \in SettingsChoices : saveGlobalSettings(newSettings)
          \/ \E t \in ticks : t.demo /\ MonitorStep(t)
          => RemoteUnchanged]_vars

\* ------------------------------------- re-fetches after notifications

OrderMaxRows == 2
OrderMaxFetches == 2
OrderMaxNotifs == 2

\* The client stays connected and no request fails; after the first load
\* every re-fetch is started by a change notification, and up to
\* OrderMaxFetches of them are in flight at a time, each answered as one
\* snapshot.
OrderRegion ==
  /\ ~demoMode
  /\ syncError = "null"
  /\ Len(remote) <= OrderMaxRows
  /\ Cardinality(fetches) <= OrderMaxFetches
  /\ pendingNotifs <= OrderMaxNotifs
  /\ \A f \in fetches : f.read

NextOrder ==
  \/ Render /\ OrderRegion'
  \/ \E i \in DOMAIN inits : init(i) /\ OrderRegion'
  \/ RealtimeEvent /\ OrderRegion'
  \/ \E f \in fetches : FetchApply(f) /\ OrderRegion'
  \/ \E studentId \in Patrons : handleCheckIn(studentId) /\ OrderRegion'
  \/ \E sessionId \in SessionIds :
       handleCheckOut(sessionId, NoNotes) /\ OrderRegion'

SpecOrder == Init /\ [][NextOrder]_vars

\* How far a snapshot of the sessions table is: a row is inserted open and
\* then closed, and no row is deleted, so a later snapshot has at least the
\* open and the closed rows of an earlier one, a closed row counting for its
\* insertion and for its closing.
SnapshotRank(act, history) == Len(act) + 2 * Len(history)

ViewRank == SnapshotRank(activeSessions, sessionHistory)

\* C27: when the result of a re-fetch is applied to the view of a connected
\* client, the view does not go back to an older snapshot of the sessions
\* table than the one it shows.
C27_NoOlderSnapshotAfterNewer ==
  [][\A f \in fetches :
       ~demoMode /\ FetchApply(f) =>
         SnapshotRank(f.act, f.history) >= ViewRank]_vars

\* Every change notification has been delivered and every re-fetch has
\* completed, after the first load and at least one successful write.
Quiescent ==
  /\ ~demoMode
  /\ remote # <<>>
  /\ pendingNotifs = 0
  /\ fetches = {}
  /\ inits = <<>>

ActiveViewIds == {activeSessions[i].id : i \in DOMAIN activeSessions}

OpenRowIds == {OpenRows[i].id : i \in DOMAIN OpenRows}

\* C28: in connected mode, once the change notifications of the successful
\* check-in and check-out writes have been delivered and all re-fetches have
\* completed, the active-session view of the client is the set of remote
\* sessions with null check-out.
C28_QuiescentViewConverged ==
  Quiescent => ActiveViewIds = OpenRowIds

\* A resync is started: by the refresh button, by init() and the auth events
\* it stands for, or by a delivered change notification.
ResyncStart ==
  \/ onRefresh
  \/ RealtimeEvent
  \/ \E i \in DOMAIN inits : init(i)

\* C29: a resync is started only by a refresh, an auth event or a delivered
\* change notification, never by the passing of time or by the failed
\* operation, and the sync status leaves 'error' only when such a resync
\* starts or completes.
C29_NoRetryByItself ==
  [][/\ ~(fetches' \subseteq fetches) => ResyncStart
     /\ syncStatus = "error" /\ syncStatus' # "error"
          => ResyncStart \/ \E f \in fetches : FetchApply(f)]_vars

\* A request of the connected client has failed, a minute has passed and the
\* interval has fired since, and no resync is in flight or due.
C29_Witness ==
  /\ ~demoMode
  /\ syncStatus = "error"
  /\ clock >= MsPerMinute
  /\ ticks # {}
  /\ fetches = {}
  /\ pendingNotifs = 0

\* `local-${Date.now()}`
IsLocalId(sessionId) == sessionId[1] = "local"

\* The connected client shows a session with a local- id in its active view:
\* handleCheckOut, called for it, finds it in the ref and sends
\* update(...).eq('id', sessionId).
CheckOutTargetsLocal ==
  /\ NoSyncRun
  /\ UIVisible
  /\ ~demoMode
  /\ \E i \in DOMAIN activeSessions :
       /\ IsLocalId(activeSessions[i].id)
       /\ FindById(activeSessionsRef, activeSessions[i].id) # 0

\* A monitor tick of a connected render is at a session with a local- id
\* that it closes (handleCheckOut of that render) or whose alert flag it
\* writes.
TickTargetsLocal ==
  \E t \in ticks :
    /\ t.sync \/ NoSyncRun
    /\ ~t.demo
    /\ IsLocalId(Head(t.cur).id)
    /\ \/ t.pc = "sent"
       \/ /\ AutoDue(t, Head(t.cur))
          /\ FindById(activeSessionsRef, Head(t.cur).id) # 0

\* C30: through any sequence of mode switches, check-ins, check-outs and
\* monitor ticks, the client is never about to send an update of the remote
\* sessions that targets a local- id, and no remote row carries one.
C30_LocalIdsStayLocal ==
  /\ ~CheckOutTargetsLocal
  /\ ~TickTargetsLocal
  /\ \A i \in DOMAIN remote : ~IsLocalId(remote[i].id)

\* The settings the tick t started with force the check-out of the session
\* it is at.
SnapshotForces(t) ==
  /\ t.settings.autoCheckoutEnabled
  /\ t.now - Head(t.cur).checkIn >=
       t.settings.autoCheckoutHours * MinutesPerHour * MsPerMinute

\* The settings the tick t started with ask for an alert for the session it
\* is at.
SnapshotAlerts(t) ==
  /\ t.settings.notifEnabled
  /\ t.now - Head(t.cur).checkIn >= t.settings.thresholdMinutes * MsPerMinute

\* Every tick after the step has the settings it had before the step, or has
\* just started with the settings of the client.
SnapshotKept ==
  \A u \in ticks' :
    \/ \E t \in ticks : u.now = t.now /\ u.settings = t.settings
    \/ MonitorFire /\ u.settings = appSettings

\* C31: a tick keeps the settings it started with for all its sessions, a
\* tick that starts takes the settings the client has at that moment, and a
\* step of a tick closes a session or dispatches an alert only when the
\* settings the tick started with ask for it, whatever the settings of the
\* client have become.
C31_SettingsFixedWithinTick ==
  [][/\ SnapshotKept
     /\ \A t \in ticks :
          MonitorStep(t) /\ t.pc = "loop" =>
            /\ ~NothingClosed => SnapshotForces(t)
            /\ dispatched' # dispatched =>
                 SnapshotAlerts(t) /\ ~SnapshotForces(t)]_vars

\* A tick waits on a request with sessions left to process while the client
\* has received other settings than the ones the tick started with.
C31_Witness ==
  \E t \in ticks :
    /\ ~t.sync
    /\ t.settings # appSettings
    /\ t.cur # <<>>
    /\ remote # <<>>

\* A dependency of the monitor effect changes: the clean-up clears the
\* interval and the effect creates a new one.
TimerCleared ==
  \/ appSettings' # appSettings
  \/ demoMode' # demoMode
  \/ patrons' # patrons

\* C32: when the interval of the monitor is cleared by a re-creation of the
\* effect, the time that had passed on it is dropped and no tick starts in
\* that step; a tick that starts belongs to the interval of the latest
\* render; a tick in progress is left as it is by every step but its own.
C32_ClearedTimerStartsNoTick ==
  [][/\ TimerCleared => timerElapsed' = 0 /\ ticks' \subseteq ticks
     /\ MonitorFire =>
          \A u \in ticks' \ ticks :
            u.demo = demoMode /\ u.settings = appSettings /\ u.patrons = patrons
     /\ ticks' # ticks => MonitorFire \/ \E t \in ticks : MonitorStep(t)]_vars

\* A tick started by the interval of a connected render is waiting on its
\* notification call after sign-out has cleared that interval.
C32_Witness ==
  \E t \in ticks :
    /\ ~t.demo
    /\ demoMode
    /\ t.pc = "sent"
    /\ timerElapsed = 0

\* After the step the session the tick t is at has alertTriggered true where
\* the session is kept.
FlagSetAfter(t) ==
  IF t.demo
  THEN \A i \in DOMAIN activeSessions' :
         activeSessions'[i].id = Head(t.cur).id =>
           activeSessions'[i].alertTriggered
  ELSE \A i \in DOMAIN remote' :
         remote'[i].id = Head(t.cur).id => remote'[i].alert_triggered

\* C33: when sendOverdueAlert has returned for a session, delivered or not,
\* the step of the tick that follows leaves the session with alertTriggered
\* true, and the dispatcher is invoked at most once for a session.
C33_AlertAtMostOnce ==
  [][/\ \A t \in ticks :
          MonitorStep(t) /\ t.pc = "sent" => FlagSetAfter(t)
     /\ \A sessionId \in DOMAIN dispatched' : dispatched'[sessionId] <= 1]_vars

\* ------------------------------------------ the order of the history

BackMaxMinutes == 1
BackMaxToday == 2
BackMaxHistory == 2
BackMaxRows == 1
BackMaxFetches == 1
BackMaxNotifs == 1

\* Patrons are checked in and out within BackMaxMinutes minutes, in either
\* mode, no request fails, and the wall clock of the device is set back by a
\* minute and forth again.
BackRegion ==
  /\ syncError = "null"
  /\ clock <= BackMaxMinutes * MsPerMinute
  /\ Len(todaySessions) <= BackMaxToday
  /\ Len(sessionHistory) <= BackMaxHistory
  /\ Len(remote) <= BackMaxRows
  /\ Cardinality(fetches) <= BackMaxFetches
  /\ pendingNotifs <= BackMaxNotifs
  /\ \A f \in fetches : f.read

NextBack ==
  \/ Advance(MsPerMinute) /\ BackRegion'
  \/ \E d \in {0, -MsPerMinute} : ClockAdjust(d) /\ BackRegion'
  \/ Render /\ BackRegion'
  \/ \E i \in DOMAIN inits : init(i) /\ BackRegion'
  \/ onRefresh /\ BackRegion'
  \/ RealtimeEvent /\ BackRegion'
  \/ \E f \in fetches : FetchApply(f) /\ BackRegion'
  \/ \E studentId \in Patrons : handleCheckIn(studentId) /\ BackRegion'
  \/ \E sessionId \in SessionIds :
       handleCheckOut(sessionId, NoNotes) /\ BackRegion'

SpecBack == Init /\ [][NextBack]_vars

\* C34: of any two adjacent entries of the history view the earlier one has
\* a check-out time at or after the later one's.
C34_HistoryMostRecentFirst ==
  \A i \in DOMAIN sessionHistory :
    i + 1 \in DOMAIN sessionHistory =>
      sessionHistory[i].checkOut >= sessionHistory[i + 1].checkOut

\* --------------------------------- check-outs while a tick is waiting

CloseMaxHours == 3
CloseMaxRows == 2
CloseMaxFetches == 1
CloseMaxNotifs == 1
CloseMaxDispatch == 1

\* The client stays connected with the default policy (alert after 180
\* minutes), no check-in, check-out or resync fails, two patrons are checked
\* in and out, and a tick starts when the one before it has ended.
CloseRegion ==
  /\ ~demoMode
  /\ syncError = "null"
  /\ clock <= CloseMaxHours * MsPerHour
  /\ Len(remote) <= CloseMaxRows
  /\ Cardinality(fetches) <= CloseMaxFetches
  /\ pendingNotifs <= CloseMaxNotifs
  /\ \A f \in fetches : f.read
  /\ \A id \in DOMAIN dispatched : dispatched[id] <= CloseMaxDispatch

NextClose ==
  \/ Advance(MsPerHour) /\ CloseRegion'
  \/ Render /\ CloseRegion'
  \/ \E i \in DOMAIN inits : init(i) /\ CloseRegion'
  \/ RealtimeEvent /\ CloseRegion'
  \/ \E f \in fetches : FetchApply(f) /\ CloseRegion'
  \/ \E studentId \in Patrons : handleCheckIn(studentId) /\ CloseRegion'
  \/ \E sessionId \in SessionIds :
       handleCheckOut(sessionId, NoNotes) /\ CloseRegion'
  \/ MonitorFire /\ ticks = {} /\ CloseRegion'
  \/ \E t \in ticks : MonitorStep(t) /\ CloseRegion'

SpecClose == Init /\ [][NextClose]_vars

\* The session is active where the client of the tick t keeps its sessions.
StillActive(t, sessionId) ==
  IF t.demo THEN InActiveView(sessionId) ELSE OpenRowOfId(sessionId)

\* C35: a step of a tick that invokes the dispatcher does so for a session
\* that is active at that moment.
C35_AlertOnlyWhileActive ==
  [][\A t \in ticks :
       MonitorStep(t) /\ dispatched' # dispatched =>
         StillActive(t, Head(t.cur).id)]_vars

\* C36: the sessions of two different patrons in the active-session view
\* have different ids.
C36_ActiveIdsUnique ==
  \A i, j \in DOMAIN activeSessions :
    activeSessions[i].studentId # activeSessions[j].studentId =>
      activeSessions[i].id # activeSessions[j].id

NoLocalIn(view) == \A i \in DOMAIN view : ~IsLocalId(view[i].id)

\* C37: when a resync completes without error the views are what its queries
\* returned: the active view is the rows that had no check-out, it equals the
\* open rows of the store when nothing was written since the queries, and
\* no session of the three views has a local- id.
C37_ResyncReplacesViews ==
  [][\A f \in fetches :
       FetchApply(f) =>
         /\ activeSessions' = f.act
         /\ sessionHistory' = f.history
         /\ f.act = ActiveOfRows(ActiveQuery(remote)) =>
              ActiveViewIds' = OpenRowIds'
         /\ NoLocalIn(activeSessions')
         /\ NoLocalIn(sessionHistory')
         /\ NoLocalIn(todaySessions')]_vars

\* A resync has replaced the views of a client that had checked a patron in
\* and out in demo mode: the views are empty and the ref, not yet rendered,
\* still holds a local- session.
C37_Witness ==
  /\ ~demoMode
  /\ syncStatus = "online"
  /\ activeSessions = <<>>
  /\ sessionHistory = <<>>
  /\ \E i \in DOMAIN activeSessionsRef : IsLocalId(activeSessionsRef[i].id)

\* C38: whenever the sync status is 'online' the last-error message is
\* empty.
C38_OnlineHasNoError ==
  syncStatus = "online" => syncError = "null"

\* C39: whenever the client is in demo mode the sync status is 'offline' or
\* 'error'.
C39_DemoNeverOnline ==
  demoMode => syncStatus \in {"offline", "error"}

\* The quotient q is a number from 0 to 100.
IsPercent(q) ==
  /\ q # NaN
  /\ q[2] # 0
  /\ q[1] * q[2] >= 0
  /\ IF q[2] > 0 THEN q[1] <= PercentMax * q[2] ELSE q[1] >= PercentMax * q[2]

\* C40: for the active view the Dashboard shows and every daily capacity the
\* Settings page can store, zero included, the occupancy percentage is a
\* number from 0 to 100 and the remaining seats are a number at or above
\* zero.
C40_DashboardFiguresDefined ==
  UIVisible =>
    \A capacity \in CapacityChoices :
      /\ IsPercent(occupancyPercentage(capacity, activeSessions))
      /\ remainingSeats(capacity, activeSessions) >= 0

====
